---- MODULE Spec2Model ----
(***************************************************************************)
(* Carbon footprint calculator: the emission factor tables, the eight      *)
(* GHG Protocol calculator functions, and the Streamlit session that       *)
(* aggregates, stores and saves one calculation per 'Calculate Carbon      *)
(* Footprint' click.                                                       *)
(*                                                                         *)
(* Number representation.  Python floats are modelled by exact fixed-point *)
(* integers: every emission value is an integer number of micro-tonnes     *)
(* (Tonne = 10^6), every factor of emission_factors.py that is a fraction  *)
(* of a tonne is stored multiplied by Tonne, and a share of a commute      *)
(* breakdown is stored in hundredths (One = 100).  The input sets below    *)
(* are chosen so that every division of the code is exact in the model.    *)
(* Floating-point rounding itself is not modelled.                         *)
(*                                                                         *)
(* Text that the code transforms (grid region, industry) is a sequence of  *)
(* one-character strings, so that lower() and replace() are computed.      *)
(***************************************************************************)
EXTENDS Integers, Sequences, FiniteSets, TLC

\* ------------------------------------------------------------------------
\* Representation
\* ------------------------------------------------------------------------

\* One tonne CO2e in model units (micro-tonnes).
Tonne == 1000000

\* The share 1.0 of a commute breakdown, in hundredths.
One == 100

\* Variant of Share with the fraction truncated to a whole number first.
Share_truncated(x, p) == x * (p \div One)

\* x multiplied by the fraction p/One.
Share(x, p) == (x * p) \div One

\* Python's None.
None == [none |-> TRUE]

\* Python's empty dict.
EmptyDict == [k \in {} |-> 0]

\* An evaluation that returned v / an evaluation that raised.
Returned(v) == [raised |-> FALSE, value |-> v]

Raised == [raised |-> TRUE, value |-> 0]

\* dict.get(key, default)
Get(table, key, default) == IF key \in DOMAIN table THEN table[key] ELSE default

\* sum(d.values())
RECURSIVE SumOver(_, _)
SumOver(d, keys) ==
    IF keys = {} THEN 0
    ELSE LET k == CHOOSE x \in keys : TRUE
         IN  d[k] + SumOver(d, keys \ {k})

SumValues(d) == SumOver(d, DOMAIN d)

\* ------------------------------------------------------------------------
\* str.lower() and str.replace() on sequences of characters
\* ------------------------------------------------------------------------

LowerChar(c) ==
    LET UpperChars == <<"A","B","C","D","E","F","G","H","I","J","K","L","M",
                        "N","O","P","Q","R","S","T","U","V","W","X","Y","Z">>
        LowerChars == <<"a","b","c","d","e","f","g","h","i","j","k","l","m",
                        "n","o","p","q","r","s","t","u","v","w","x","y","z">>
    IN  IF \E k \in DOMAIN UpperChars : UpperChars[k] = c
        THEN LowerChars[CHOOSE k \in DOMAIN UpperChars : UpperChars[k] = c]
        ELSE c

\* Variant of lower that leaves the text as it is.
lower_unchanged(s) == s

lower(s) == [i \in DOMAIN s |-> LowerChar(s[i])]

IsPrefix(p, s) == Len(p) <= Len(s) /\ SubSeq(s, 1, Len(p)) = p

RECURSIVE replace(_, _, _)
replace(s, old, new) ==
    IF s = <<>> THEN <<>>
    ELSE IF IsPrefix(old, s)
         THEN new \o replace(SubSeq(s, Len(old) + 1, Len(s)), old, new)
         ELSE <<Head(s)>> \o replace(Tail(s), old, new)

\* ------------------------------------------------------------------------
\* Text constants
\* ------------------------------------------------------------------------

\* The keys of the tables ELECTRICITY (northeast_us .. default) and
\* PURCHASED_GOODS (manufacturing .. food_beverage; it has a key default too).
Key ==
    [northeast_us |->
        <<"n","o","r","t","h","e","a","s","t","_","u","s">>,
     midwest_us |->
        <<"m","i","d","w","e","s","t","_","u","s">>,
     south_us |->
        <<"s","o","u","t","h","_","u","s">>,
     west_us |->
        <<"w","e","s","t","_","u","s">>,
     western_europe |->
        <<"w","e","s","t","e","r","n","_","e","u","r","o","p","e">>,
     eastern_europe |->
        <<"e","a","s","t","e","r","n","_","e","u","r","o","p","e">>,
     asia |->
        <<"a","s","i","a">>,
     renewable |->
        <<"r","e","n","e","w","a","b","l","e">>,
     mixed |->
        <<"m","i","x","e","d">>,
     default |->
        <<"d","e","f","a","u","l","t">>,
     manufacturing |->
        <<"m","a","n","u","f","a","c","t","u","r","i","n","g">>,
     technology |->
        <<"t","e","c","h","n","o","l","o","g","y">>,
     retail |->
        <<"r","e","t","a","i","l">>,
     healthcare |->
        <<"h","e","a","l","t","h","c","a","r","e">>,
     education |->
        <<"e","d","u","c","a","t","i","o","n">>,
     financial_services |->
        <<"f","i","n","a","n","c","i","a","l","_", "s","e","r","v","i","c","e","s">>,
     food_beverage |->
        <<"f","o","o","d","_","b","e","v","e","r","a","g","e">>]

\* The grid regions (NortheastUS .. Other) and industries (Manufacturing ..
\* FoodBeverage, Other) that the form offers, and three region strings that
\* it does not offer.
Text ==
    [NortheastUS |->
        <<"N","o","r","t","h","e","a","s","t"," ","U","S">>,
     MidwestUS |->
        <<"M","i","d","w","e","s","t"," ","U","S">>,
     SouthUS |->
        <<"S","o","u","t","h"," ","U","S">>,
     WestUS |->
        <<"W","e","s","t"," ","U","S">>,
     WesternEurope |->
        <<"W","e","s","t","e","r","n"," ","E","u","r","o","p","e">>,
     EasternEurope |->
        <<"E","a","s","t","e","r","n"," ","E","u","r","o","p","e">>,
     Asia |->
        <<"A","s","i","a">>,
     Other |->
        <<"O","t","h","e","r">>,
     Manufacturing |->
        <<"M","a","n","u","f","a","c","t","u","r","i","n","g">>,
     Technology |->
        <<"T","e","c","h","n","o","l","o","g","y">>,
     Retail |->
        <<"R","e","t","a","i","l">>,
     Healthcare |->
        <<"H","e","a","l","t","h","c","a","r","e">>,
     Education |->
        <<"E","d","u","c","a","t","i","o","n">>,
     FinancialServices |->
        <<"F","i","n","a","n","c","i","a","l"," ", "S","e","r","v","i","c","e","s">>,
     FoodBeverage |->
        <<"F","o","o","d"," ","&"," ","B","e","v","e","r","a","g","e">>,
     UnknownRegion |->
        <<"U","n","k","n","o","w","n"," ","R","e","g","i","o","n">>,
     RenewableText |->
        <<"R","e","n","e","w","a","b","l","e">>,
     MixedText |->
        <<"M","i","x","e","d">>]


\* ------------------------------------------------------------------------
\* emission_factors.py   (fractions of a tonne are stored times Tonne)
\* ------------------------------------------------------------------------

STATIONARY_COMBUSTION ==
    [natural_gas |-> 1950, diesel |-> 2730, propane |-> 1530, fuel_oil |-> 2810]

MOBILE_COMBUSTION ==
    [gasoline |-> 2340, diesel |-> 2670, jet_fuel |-> 2590]

\* Global warming potentials (plain numbers)
REFRIGERANTS ==
    ("R-134a" :> 1430) @@ ("R-410A" :> 2088) @@ ("R-404A" :> 3922) @@
    ("R-22" :> 1810) @@ ("None" :> 0)

ELECTRICITY ==
    (Key.northeast_us :> 254) @@ (Key.midwest_us :> 481) @@ (Key.south_us :> 427) @@
    (Key.west_us :> 221) @@ (Key.western_europe :> 276) @@
    (Key.eastern_europe :> 483) @@ (Key.asia :> 562) @@
    (Key.renewable :> 16) @@ (Key.mixed :> 320) @@ (Key.default :> 431)

BUSINESS_TRAVEL ==
    [air_short_haul |-> 258, air_medium_haul |-> 168, air_long_haul |-> 153,
     car_rental |-> 348, hotel_stay |-> 21000]

COMMUTING ==
    [car |-> 348, carpool |-> 162, public_transit |-> 96,
     walking_biking |-> 0, wfh |-> 32]

\* Variant of WASTE in which recycling is credited with avoided emissions.
WASTE_recycling_credit ==
    [landfill |-> 458000, recycled |-> -21000, composted |-> 23000,
     incinerated |-> 13600]

WASTE ==
    [landfill |-> 458000, recycled |-> 21000, composted |-> 23000,
     incinerated |-> 13600]

\* Tonnes per million USD (plain numbers)
PURCHASED_GOODS ==
    (Key.manufacturing :> 563) @@ (Key.technology :> 386) @@ (Key.retail :> 274) @@
    (Key.healthcare :> 221) @@ (Key.education :> 176) @@
    (Key.financial_services :> 143) @@ (Key.food_beverage :> 498) @@
    (Key.default :> 412)

\* The namespace of module emission_factors as loaded at start-up; the
\* calculators read it through their first parameter ef (import ... as ef).
LoadedFactors ==
    [STATIONARY_COMBUSTION |-> STATIONARY_COMBUSTION,
     MOBILE_COMBUSTION |-> MOBILE_COMBUSTION, REFRIGERANTS |-> REFRIGERANTS,
     ELECTRICITY |-> ELECTRICITY, BUSINESS_TRAVEL |-> BUSINESS_TRAVEL,
     COMMUTING |-> COMMUTING, WASTE |-> WASTE,
     PURCHASED_GOODS |-> PURCHASED_GOODS]

\* ------------------------------------------------------------------------
\* ghg_protocol.py   (every function returns micro-tonnes)
\* ------------------------------------------------------------------------

\* Variant with a fixed base load added to the fuel emissions.
calculate_stationary_combustion_base_load(ef, natural_gas, diesel, propane, fuel_oil) ==
    natural_gas * ef.STATIONARY_COMBUSTION.natural_gas
      + diesel * ef.STATIONARY_COMBUSTION.diesel
      + propane * ef.STATIONARY_COMBUSTION.propane
      + fuel_oil * ef.STATIONARY_COMBUSTION.fuel_oil
      + ef.STATIONARY_COMBUSTION.natural_gas

calculate_stationary_combustion(ef, natural_gas, diesel, propane, fuel_oil) ==
    LET natural_gas_emissions == natural_gas * ef.STATIONARY_COMBUSTION.natural_gas
        diesel_emissions      == diesel * ef.STATIONARY_COMBUSTION.diesel
        propane_emissions     == propane * ef.STATIONARY_COMBUSTION.propane
        fuel_oil_emissions    == fuel_oil * ef.STATIONARY_COMBUSTION.fuel_oil
    IN  natural_gas_emissions + diesel_emissions + propane_emissions
          + fuel_oil_emissions

calculate_mobile_combustion(ef, gasoline, diesel, jet_fuel) ==
    LET gasoline_emissions == gasoline * ef.MOBILE_COMBUSTION.gasoline
        diesel_emissions   == diesel * ef.MOBILE_COMBUSTION.diesel
        jet_fuel_emissions == jet_fuel * ef.MOBILE_COMBUSTION.jet_fuel
    IN  gasoline_emissions + diesel_emissions + jet_fuel_emissions

\* Variant that takes the GWP of R-134a for a type that is not listed.
calculate_refrigerant_emissions_default_gwp(ef, refrigerant_type, amount) ==
    IF refrigerant_type = "None" \/ amount = 0
    THEN 0
    ELSE amount * Get(ef.REFRIGERANTS, refrigerant_type, 1430) * (Tonne \div 1000)

\* amount (kg) * GWP / 1000 tonnes
calculate_refrigerant_emissions(ef, refrigerant_type, amount) ==
    IF refrigerant_type = "None" \/ amount = 0
    THEN 0
    ELSE amount * Get(ef.REFRIGERANTS, refrigerant_type, 0) * (Tonne \div 1000)

\* Variant that looks the region up first and the source second.
electricity_emissions_factor_region_first(ef, grid_region, electricity_source) ==
    LET key == replace(lower(grid_region), <<" ">>, <<"_">>)
    IN  IF key \in DOMAIN ef.ELECTRICITY
        THEN ef.ELECTRICITY[key]
        ELSE IF electricity_source = "Renewable Energy"
             THEN ef.ELECTRICITY[Key.renewable]
             ELSE IF electricity_source = "Mixed Sources"
                  THEN ef.ELECTRICITY[Key.mixed]
                  ELSE ef.ELECTRICITY[Key.default]

\* The factor chosen by calculate_electricity_emissions.
electricity_emissions_factor(ef, grid_region, electricity_source) ==
    IF electricity_source = "Renewable Energy"
    THEN ef.ELECTRICITY[Key.renewable]
    ELSE IF electricity_source = "Mixed Sources"
         THEN ef.ELECTRICITY[Key.mixed]
         ELSE Get(ef.ELECTRICITY, replace(lower(grid_region), <<" ">>, <<"_">>),
                  ef.ELECTRICITY[Key.default])

\* electricity (kWh) * factor / 1000
calculate_electricity_emissions(ef, electricity, grid_region, electricity_source) ==
    (electricity * electricity_emissions_factor(ef, grid_region, electricity_source))
        \div 1000

calculate_business_travel_emissions(ef, air_travel_short, air_travel_medium, air_travel_long, car_rental, hotel_stays) ==
    LET air_short_emissions  == air_travel_short * ef.BUSINESS_TRAVEL.air_short_haul
        air_medium_emissions == air_travel_medium * ef.BUSINESS_TRAVEL.air_medium_haul
        air_long_emissions   == air_travel_long * ef.BUSINESS_TRAVEL.air_long_haul
        car_rental_emissions == car_rental * ef.BUSINESS_TRAVEL.car_rental
        hotel_emissions      == hotel_stays * ef.BUSINESS_TRAVEL.hotel_stay
    IN  air_short_emissions + air_medium_emissions + air_long_emissions
          + car_rental_emissions + hotel_emissions

\* Variant of Truthy that tests only 'is not None'.
Truthy_not_none(mode_breakdown) ==
    mode_breakdown # None

\* Python truthiness of the mode_breakdown argument.
Truthy(mode_breakdown) ==
    mode_breakdown # None /\ DOMAIN mode_breakdown # {}

BreakdownKeys == {"car", "carpool", "public_transit", "walking_biking", "wfh"}

\* Variant in which a mode without an entry in mode_mapping is a KeyError too.
commuting_raises_unknown_mode(commute_mode, mode_breakdown) ==
    \/ /\ commute_mode = "Mixed"
       /\ Truthy(mode_breakdown)
       /\ ~(BreakdownKeys \subseteq DOMAIN mode_breakdown)
    \/ commute_mode \notin
          {"Car (Single Occupancy)", "Carpool", "Public Transit",
           "Walking/Biking", "Work from Home", "Mixed"}

\* The weighted branch reads the five keys; a missing one is a KeyError.
commuting_raises(commute_mode, mode_breakdown) ==
    /\ commute_mode = "Mixed"
    /\ Truthy(mode_breakdown)
    /\ ~(BreakdownKeys \subseteq DOMAIN mode_breakdown)

\* Variant of mode_mapping that treats a carpool as a single-occupancy car.
mode_mapping_carpool_as_car ==
    ("Car (Single Occupancy)" :> "car") @@ ("Carpool" :> "car") @@
    ("Public Transit" :> "public_transit") @@
    ("Walking/Biking" :> "walking_biking") @@ ("Work from Home" :> "wfh")

mode_mapping ==
    ("Car (Single Occupancy)" :> "car") @@ ("Carpool" :> "carpool") @@
    ("Public Transit" :> "public_transit") @@
    ("Walking/Biking" :> "walking_biking") @@ ("Work from Home" :> "wfh")

calculate_employee_commuting_emissions(ef, avg_commute_distance, num_employees, commute_days_per_year, commute_mode, mode_breakdown) ==
    LET total_annual_miles ==
            avg_commute_distance * 2 * num_employees * commute_days_per_year
    IN  IF commute_mode = "Mixed" /\ Truthy(mode_breakdown)
        THEN LET car_emissions ==
                     Share(total_annual_miles, mode_breakdown["car"])
                         * ef.COMMUTING.car
                 carpool_emissions ==
                     Share(total_annual_miles, mode_breakdown["carpool"])
                         * ef.COMMUTING.carpool
                 transit_emissions ==
                     Share(total_annual_miles, mode_breakdown["public_transit"])
                         * ef.COMMUTING.public_transit
                 walking_biking_emissions ==
                     Share(total_annual_miles, mode_breakdown["walking_biking"])
                         * ef.COMMUTING.walking_biking
                 wfh_emissions ==
                     Share(total_annual_miles, mode_breakdown["wfh"])
                         * ef.COMMUTING.wfh
             IN  car_emissions + carpool_emissions + transit_emissions
                   + walking_biking_emissions + wfh_emissions
        ELSE LET emission_factor ==
                     ef.COMMUTING[Get(mode_mapping, commute_mode, "car")]
             IN  total_annual_miles * emission_factor

calculate_waste_emissions(ef, landfill_waste, recycled_waste, composted_waste, incinerated_waste) ==
    LET landfill_emissions    == landfill_waste * ef.WASTE.landfill
        recycled_emissions    == recycled_waste * ef.WASTE.recycled
        composted_emissions   == composted_waste * ef.WASTE.composted
        incinerated_emissions == incinerated_waste * ef.WASTE.incinerated
    IN  landfill_emissions + recycled_emissions + composted_emissions
          + incinerated_emissions

\* Variant that replaces the spaces only, not " & ".
industry_factor_spaces_only(ef, industry) ==
    Get(ef.PURCHASED_GOODS, replace(lower(industry), <<" ">>, <<"_">>),
        ef.PURCHASED_GOODS[Key.default])

\* The factor chosen by calculate_purchased_goods_emissions.
industry_factor(ef, industry) ==
    Get(ef.PURCHASED_GOODS,
        replace(replace(lower(industry), <<" ","&"," ">>, <<"_">>),
                <<" ">>, <<"_">>),
        ef.PURCHASED_GOODS[Key.default])

\* purchased_goods (USD) / 1000000 * factor tonnes
calculate_purchased_goods_emissions(ef, purchased_goods, industry) ==
    purchased_goods * (Tonne \div 1000000) * industry_factor(ef, industry)

\* ------------------------------------------------------------------------
\* recommendations.py
\* ------------------------------------------------------------------------

\* Insertion order of the keys of emissions_by_category (app.py).
CategoryOrder ==
    <<"Stationary Combustion", "Mobile Combustion", "Refrigerants",
      "Purchased Electricity", "Business Travel", "Employee Commuting",
      "Waste Generation", "Purchased Goods & Services">>

Categories == {CategoryOrder[i] : i \in DOMAIN CategoryOrder}

\* Position of key c in the insertion order of the category dict; a key that
\* a caller adds to the eight of app.py comes after them.
position(c) ==
    IF c \in Categories
    THEN CHOOSE i \in DOMAIN CategoryOrder : CategoryOrder[i] = c
    ELSE Len(CategoryOrder) + 1

\* The items that sorted(items, key=value, reverse=True) puts before c: the
\* sort is stable, so equal values keep their insertion order.
sorted_before(d, c) ==
    {k \in DOMAIN d :
        \/ d[k] > d[c]
        \/ d[k] = d[c] /\ position(k) < position(c)}

\* The categories with positive emissions, cut to the first three in
\* sorted order.
top_categories(emissions_by_category) ==
    {c \in DOMAIN emissions_by_category :
        /\ emissions_by_category[c] > 0
        /\ Cardinality({k \in sorted_before(emissions_by_category, c) :
                           emissions_by_category[k] > 0}) < 3}

BaseRecommendations(category, industry) ==
    CASE category = "Stationary Combustion" ->
           <<"Conduct an energy audit to identify heating system inefficiencies",
             "Implement a preventive maintenance program for combustion equipment",
             "Upgrade to high-efficiency boilers and furnaces",
             "Improve building insulation and seal air leaks",
             "Install programmable thermostats and optimize temperature settings">>
           \o (IF industry = Text.Manufacturing
               THEN <<"Recover and reuse waste heat from industrial processes",
                      "Explore fuel switching to lower-carbon alternatives">>
               ELSE <<>>)
      [] category = "Mobile Combustion" ->
           <<"Develop a green fleet management strategy",
             "Replace older vehicles with fuel-efficient or electric models",
             "Implement driver training for fuel-efficient driving techniques",
             "Optimize delivery routes and logistics planning",
             "Consider alternative-fuel vehicles where appropriate">>
           \o (IF industry = Text.Retail \/ industry = Text.FoodBeverage
               THEN <<"Optimize delivery schedules to reduce empty miles">>
               ELSE <<>>)
      [] category = "Refrigerants" ->
           <<"Implement a refrigerant management and leak detection program",
             "Transition to refrigerants with lower global warming potential",
             "Ensure proper maintenance of cooling equipment",
             "Train technicians on best practices for refrigerant handling",
             "Consider natural refrigerants for new equipment purchases">>
      [] category = "Purchased Electricity" ->
           <<"Conduct a lighting audit and upgrade to LED technology",
             "Install occupancy sensors and daylight harvesting systems",
             "Purchase renewable energy or renewable energy credits",
             "Optimize HVAC scheduling and operations",
             "Investigate on-site renewable energy generation">>
           \o (IF industry = Text.Technology
               THEN <<"Implement server virtualization and data center efficiency measures">>
               ELSE <<>>)
      [] category = "Business Travel" ->
           <<"Develop a sustainable travel policy",
             "Increase use of video conferencing to reduce non-essential travel",
             "When travel is necessary, prioritize direct flights over connections",
             "Consider carbon offsets for unavoidable air travel",
             "Choose hotels with green certifications">>
      [] category = "Employee Commuting" ->
           <<"Implement a flexible work policy including remote work options",
             "Offer incentives for carpooling and public transit use",
             "Install EV charging stations at your facility",
             "Create a bike-friendly workplace with secure storage and showers",
             "Consider a compressed work week (e.g., 4 day/10 hour schedule)">>
      [] category = "Waste Generation" ->
           <<"Conduct a waste audit to identify reduction opportunities",
             "Implement a comprehensive recycling program",
             "Start composting organic waste",
             "Set targets for zero waste to landfill",
             "Engage employees in waste reduction initiatives">>
           \o (IF industry = Text.FoodBeverage
               THEN <<"Donate excess food to local food banks",
                      "Implement food waste tracking and prevention measures">>
               ELSE <<>>)
      [] category = "Purchased Goods & Services" ->
           <<"Develop sustainable procurement guidelines",
             "Engage suppliers on their emissions reduction efforts",
             "Select products with environmental certifications",
             "Reduce packaging or switch to sustainable packaging",
             "Conduct lifecycle assessments for key products">>
           \o (IF industry = Text.Manufacturing
               THEN <<"Redesign products for reduced material use and longer lifespan">>
               ELSE <<>>)
      [] OTHER -> <<>>

PriorityRecommendation(category) ==
    CASE category = "Stationary Combustion" ->
           <<"PRIORITY: Consider a comprehensive energy efficiency retrofit">>
      [] category = "Mobile Combustion" ->
           <<"PRIORITY: Develop a fleet electrification strategy and timeline">>
      [] category = "Purchased Electricity" ->
           <<"PRIORITY: Consider a power purchase agreement (PPA) for renewable energy">>
      [] category = "Business Travel" ->
           <<"PRIORITY: Set a business travel carbon budget with reduction targets">>
      [] category = "Employee Commuting" ->
           <<"PRIORITY: Implement a comprehensive sustainable commuting program">>
      [] category = "Waste Generation" ->
           <<"PRIORITY: Establish a formal zero waste program with measurable targets">>
      [] category = "Purchased Goods & Services" ->
           <<"PRIORITY: Engage top suppliers on science-based emissions reduction targets">>
      [] OTHER -> <<>>

get_category_recommendations(category, industry, is_priority) ==
    (IF is_priority THEN PriorityRecommendation(category) ELSE <<>>)
        \o BaseRecommendations(category, industry)

\* Variant of generate_recommendations without the test emissions > 0.
generate_recommendations_every_category(emissions_by_category, industry) ==
    LET top == top_categories(emissions_by_category)
        keep == {c \in DOMAIN emissions_by_category :
                    get_category_recommendations(c, industry, c \in top) # <<>>}
    IN  [c \in keep |-> get_category_recommendations(c, industry, c \in top)]

generate_recommendations(emissions_by_category, industry) ==
    LET top == top_categories(emissions_by_category)
        keep == {c \in DOMAIN emissions_by_category :
                    /\ emissions_by_category[c] > 0
                    /\ get_category_recommendations(c, industry, c \in top) # <<>>}
    IN  [c \in keep |-> get_category_recommendations(c, industry, c \in top)]

\* ------------------------------------------------------------------------
\* carbon_offsets.py
\* ------------------------------------------------------------------------

\* Insertion order of the keys of CARBON_OFFSET_PROJECTS.
ProjectOrder ==
    <<"wind_energy", "solar_energy", "reforestation", "avoided_deforestation",
      "landfill_methane", "cookstoves", "industrial_efficiency",
      "transportation", "blue_carbon", "direct_air_capture">>

\* The fields of a project that the recommendation logic reads; prices are
\* in USD per tonne.
Project(lo, hi, locations, industries, emissions) ==
    [price_range |-> <<lo, hi>>, project_locations |-> locations,
     best_for_industries |-> industries, best_for_emissions |-> emissions]

CARBON_OFFSET_PROJECTS ==
    [wind_energy |->
        Project(8, 20, {"USA", "India", "China", "Brazil", "South Africa"},
                {Text.Manufacturing, Text.Technology, Text.FinancialServices},
                {"Scope 2", "Purchased Electricity"}),
     solar_energy |->
        Project(10, 25, {"USA", "India", "Mexico", "Egypt", "Australia"},
                {Text.Technology, Text.Retail, Text.Healthcare},
                {"Scope 2", "Purchased Electricity"}),
     reforestation |->
        Project(12, 30, {"Brazil", "Indonesia", "Kenya", "USA", "Costa Rica"},
                {Text.FoodBeverage, Text.Retail, Text.FinancialServices},
                {"Scope 1", "Scope 3", "Mobile Combustion", "Business Travel"}),
     avoided_deforestation |->
        Project(5, 18, {"Brazil", "Indonesia", "Peru", "Congo Basin", "Colombia"},
                {Text.Retail, Text.FoodBeverage, Text.FinancialServices},
                {"Scope 3", "Purchased Goods & Services"}),
     landfill_methane |->
        Project(5, 15, {"USA", "Brazil", "China", "South Africa", "Mexico"},
                {Text.Retail, Text.FoodBeverage, Text.Manufacturing},
                {"Scope 3", "Waste Generation"}),
     cookstoves |->
        Project(8, 22, {"Kenya", "India", "Guatemala", "Uganda", "Nepal"},
                {Text.Retail, Text.Healthcare, Text.FoodBeverage},
                {"Scope 3", "Purchased Goods & Services"}),
     industrial_efficiency |->
        Project(10, 28, {"China", "India", "USA", "Mexico", "Vietnam"},
                {Text.Manufacturing, Text.Technology, Text.Other},
                {"Scope 1", "Stationary Combustion"}),
     transportation |->
        Project(15, 35, {"USA", "Europe", "Brazil", "India", "China"},
                {Text.Technology, Text.Retail, Text.Healthcare},
                {"Scope 1", "Scope 3", "Mobile Combustion", "Business Travel",
                 "Employee Commuting"}),
     blue_carbon |->
        Project(15, 40, {"Indonesia", "Philippines", "Mexico", "Kenya", "Madagascar"},
                {Text.FoodBeverage, Text.Retail, Text.FinancialServices},
                {"Scope 3", "Purchased Goods & Services"}),
     direct_air_capture |->
        Project(200, 600, {"USA", "Canada", "Switzerland", "Iceland"},
                {Text.Technology, Text.FinancialServices, Text.Other},
                {"All scopes", "Hard-to-abate emissions"})]

\* Insertion order of the keys of emissions_by_scope (app.py).
ScopeOrder == <<"Scope 1", "Scope 2", "Scope 3">>

\* A budget of b USD per tonne as the number input returns it; an empty
\* input is None.
Budget(b) == [usd |-> b]

\* Truth value of budget_per_tonne: None and 0 are false.
budget_given(budget_per_tonne) ==
    budget_per_tonne # None /\ budget_per_tonne.usd # 0

\* x * (offset_percentage / 100)
Percent(x, offset_percentage) ==
    (x \div 100) * offset_percentage + ((x % 100) * offset_percentage) \div 100

\* sum(emissions_by_scope.values())
scope_sum(emissions_by_scope) ==
    emissions_by_scope["Scope 1"] + emissions_by_scope["Scope 2"]
        + emissions_by_scope["Scope 3"]

\* max(emissions_by_scope.items(), key=lambda x: x[1])[0]: the first scope
\* in insertion order that no other scope exceeds.
largest_scope_of(emissions_by_scope) ==
    LET i == CHOOSE i \in DOMAIN ScopeOrder :
                 /\ \A j \in DOMAIN ScopeOrder :
                        emissions_by_scope[ScopeOrder[j]]
                            <= emissions_by_scope[ScopeOrder[i]]
                 /\ \A j \in 1..(i - 1) :
                        emissions_by_scope[ScopeOrder[j]]
                            < emissions_by_scope[ScopeOrder[i]]
    IN  ScopeOrder[i]

\* The budget filter: the project's lowest price is above a given budget.
over_budget(project, budget_per_tonne) ==
    /\ budget_given(budget_per_tonne)
    /\ project.price_range[1] > budget_per_tonne.usd

\* The score that the loop gives one project.
project_score(project, industry, budget_per_tonne, location, largest_scope, top_3_categories) ==
    IF over_budget(project, budget_per_tonne) THEN 0
    ELSE (IF industry \in project.best_for_industries THEN 5 ELSE 0)
         + (IF \/ largest_scope \in project.best_for_emissions
               \/ "All scopes" \in project.best_for_emissions
            THEN 4 ELSE 0)
         + 3 * Cardinality(top_3_categories \cap project.best_for_emissions)
         + (IF \/ location \in project.project_locations
               \/ "Global" \in project.project_locations
            THEN 2 ELSE 0)

\* Position of a project in the insertion order of CARBON_OFFSET_PROJECTS.
project_position(project_id) ==
    CHOOSE i \in DOMAIN ProjectOrder : ProjectOrder[i] = project_id

\* The projects that sorted(..., key=score, reverse=True) puts before p.
ranked_before(project_scores, p) ==
    {q \in DOMAIN project_scores :
        /\ project_scores[q] > 0
        /\ \/ project_scores[q] > project_scores[p]
           \/ /\ project_scores[q] = project_scores[p]
              /\ project_position(q) < project_position(p)}

\* recommended_projects: the ids with a positive score, best first.
recommended_projects_of(project_scores) ==
    LET ids == {p \in DOMAIN project_scores : project_scores[p] > 0}
    IN  [i \in 1..Cardinality(ids) |->
            CHOOSE p \in ids :
                Cardinality(ranked_before(project_scores, p)) = i - 1]

\* The first n elements of s: s[:n]
Take(s, n) == SubSeq(s, 1, IF Len(s) < n THEN Len(s) ELSE n)

\* One entry of portfolio_approach: the copied project with its id and score
\* (the score "N/A" of the general recommendations is written 0).
portfolio_entry(project_id, score) ==
    [id |-> project_id, score |-> score,
     price_range |-> CARBON_OFFSET_PROJECTS[project_id].price_range]

\* The allocation fields of one entry, as exact fractions num / den:
\* allocation_percentage / 100 is share / shares, and tonnes_to_offset is
\* that fraction of emissions_to_offset. (The dictionary stores both
\* rounded, and the cost range derived from them; the fractions here are
\* the values before round().)
allocation(share, shares, emissions_to_offset) ==
    [allocation |-> [num |-> share, den |-> shares],
     tonnes_to_offset |-> [num |-> share * emissions_to_offset, den |-> shares]]

\* Variant of total_score that sums the scores of all recommended projects.
total_score_all_recommended(project_scores, projects) ==
    SumValues(project_scores)

\* total_score = sum([score for _, score in recommended_projects[:4]])
total_score(project_scores, projects) ==
    SumValues([i \in DOMAIN projects |-> project_scores[projects[i]]])

\* get_general_recommendations(emissions_to_offset, budget_per_tonne)
get_general_recommendations(emissions_to_offset, budget_per_tonne) ==
    LET diverse == <<"wind_energy", "reforestation", "landfill_methane",
                     "cookstoves">>
        affordable(p) == ~over_budget(CARBON_OFFSET_PROJECTS[p], budget_per_tonne)
        filtered == SelectSeq(diverse, affordable)
        diverse_projects == IF filtered = <<>> THEN <<"wind_energy">>
                            ELSE filtered
    IN  [total_emissions |-> emissions_to_offset,
         emissions_to_offset |-> emissions_to_offset,
         portfolio_approach |->
             [i \in DOMAIN diverse_projects |->
                 portfolio_entry(diverse_projects[i], 0)
                     @@ allocation(1, Len(diverse_projects),
                                   emissions_to_offset)],
         note |-> TRUE]

\* get_offset_recommendations(emissions_by_scope, emissions_by_category,
\*     industry, budget_per_tonne, location, offset_percentage)
get_offset_recommendations(emissions_by_scope, emissions_by_category, industry, budget_per_tonne, location, offset_percentage) ==
    LET total == scope_sum(emissions_by_scope)
        emissions_to_offset == Percent(total, offset_percentage)
        largest_scope == largest_scope_of(emissions_by_scope)
        top_3_categories == top_categories(emissions_by_category)
        project_scores ==
            [p \in DOMAIN CARBON_OFFSET_PROJECTS |->
                project_score(CARBON_OFFSET_PROJECTS[p], industry,
                              budget_per_tonne, location, largest_scope,
                              top_3_categories)]
        recommended_projects == recommended_projects_of(project_scores)
        top4 == Take(recommended_projects, 4)
    IN  IF recommended_projects = <<>>
        THEN get_general_recommendations(emissions_to_offset, budget_per_tonne)
        ELSE [total_emissions |-> total,
              emissions_to_offset |-> emissions_to_offset,
              portfolio_approach |->
                  [i \in DOMAIN top4 |->
                      portfolio_entry(top4[i], project_scores[top4[i]])
                          @@ allocation(project_scores[top4[i]],
                                        total_score(project_scores, top4),
                                        emissions_to_offset)],
              note |-> FALSE]

\* ------------------------------------------------------------------------
\* app.py: state of one browser session
\* ------------------------------------------------------------------------

VARIABLES
    embedded,               \* ?embed=true query parameter of the session
    form,                   \* widget values read by the latest script run
    calculate_button,       \* whether that run handled a Calculate click
    total_emissions,        \* st.session_state.total_emissions
    emissions_by_scope,     \* st.session_state.emissions_by_scope
    emissions_by_category,  \* st.session_state.emissions_by_category
    recommendations,        \* st.session_state.recommendations (None: unset)
    input_complete,         \* st.session_state.input_complete
    last_saved_id,          \* st.session_state.last_saved_id (0: unset)
    messages,               \* st.warning/st.error/st.success of that run
    db,                     \* rows of table carbon_footprint, in id order
    tab4,                   \* locals of the Carbon Offsets tab in that run
                            \* (None: Generate was not clicked)
    call,                   \* a pending direct call of a calculator function
    ret,                    \* what that call returned (None: not yet called)
    emission_factors,       \* the tables of module emission_factors
    history                 \* the finished direct calls of this process

vars == <<embedded, form, calculate_button, total_emissions,
          emissions_by_scope, emissions_by_category, recommendations,
          input_complete, last_saved_id, messages, db, tab4, call, ret,
          emission_factors, history>>

session_vars == <<embedded, form, calculate_button, total_emissions,
                  emissions_by_scope, emissions_by_category, recommendations,
                  input_complete, last_saved_id, messages, db, tab4>>

library_vars == <<call, ret, emission_factors, history>>

\* Largest number of rows the table holds in the model.
MaxRecords == 2

\* ------------------------------------------------------------------------
\* The Input Data form
\* ------------------------------------------------------------------------

\* Every widget at its initial value.
DefaultForm ==
    [organization_name |-> "", industry |-> Text.Manufacturing,
     reporting_year |-> 2023, num_employees |-> 1,
     natural_gas |-> 0, diesel |-> 0, propane |-> 0, fuel_oil |-> 0,
     gasoline |-> 0, diesel_vehicles |-> 0, jet_fuel |-> 0,
     refrigerant_type |-> "R-134a", refrigerant_amount |-> 0,
     electricity_source |-> "Grid Electricity", electricity |-> 0,
     grid_region |-> Text.NortheastUS,
     air_travel_short |-> 0, air_travel_medium |-> 0, air_travel_long |-> 0,
     car_rental |-> 0, hotel_stays |-> 0,
     avg_commute_distance |-> 0, commute_days_per_year |-> 230,
     commute_mode |-> "Car (Single Occupancy)",
     car_percent |-> 0, carpool_percent |-> 0, public_transit_percent |-> 0,
     walking_biking_percent |-> 0, wfh_percent |-> 0,
     landfill_waste |-> 0, recycled_waste |-> 0, composted_waste |-> 0,
     incinerated_waste |-> 0,
     purchased_goods |-> 0]

\* The options of the select boxes of the form, by widget.
FormOptions ==
    [
     industry |->
         {Text.Manufacturing, Text.Technology, Text.Retail, Text.Healthcare, Text.Education,
          Text.FinancialServices, Text.FoodBeverage, Text.Other},
     grid_region |->
         {Text.NortheastUS, Text.MidwestUS, Text.SouthUS, Text.WestUS, Text.WesternEurope, Text.EasternEurope,
          Text.Asia, Text.Other},
     refrigerant_type |->
         {"R-134a", "R-410A", "R-404A", "R-22", "None"},
     electricity_source |->
         {"Grid Electricity", "Renewable Energy", "Mixed Sources"}
    ]

SingleModes ==
    {"Car (Single Occupancy)", "Carpool", "Public Transit", "Walking/Biking",
     "Work from Home"}

FormModes == SingleModes \cup {"Mixed"}

\* Slider positions of the Commute Mode Breakdown (the first is the default).
Percents(c, p, t, w, h) ==
    [car_percent |-> c, carpool_percent |-> p, public_transit_percent |-> t,
     walking_biking_percent |-> w, wfh_percent |-> h]

SliderSettings ==
    {Percents(30, 20, 30, 10, 10), Percents(100, 0, 0, 0, 0),
     Percents(0, 0, 100, 0, 0), Percents(50, 50, 50, 0, 0),
     Percents(30, 20, 30, 10, 0), Percents(0, 0, 0, 0, 0)}

\* Values entered in one section of the form, by section.
SectionValues ==
    [
     stationary |->
         [natural_gas : {0, 100}, diesel : {0, 100}, propane : {0, 100},
          fuel_oil : {0, 100}],
     mobile |->
         [gasoline : {0, 100}, diesel_vehicles : {0, 100}, jet_fuel : {0, 100}],
     \* The amount widget exists only for a type other than "None".
     refrigerants |->
         {[refrigerant_type |-> t, refrigerant_amount |-> a] :
             t \in FormOptions.refrigerant_type \ {"None"}, a \in {0, 1}}
         \cup {[refrigerant_type |-> "None", refrigerant_amount |-> 0]},
     electricity |->
         [electricity_source : FormOptions.electricity_source, electricity : {0, 1000},
          grid_region : {Text.NortheastUS, Text.Asia, Text.Other}],
     business_travel |->
         [air_travel_short : {0, 1000}, air_travel_medium : {0, 1000},
          air_travel_long : {0, 1000}, car_rental : {0, 100},
          hotel_stays : {0, 10}],
     \* The sliders exist only for mode "Mixed"; otherwise the percents are 0.
     commuting |->
         {[avg_commute_distance |-> d, commute_mode |-> m] @@ Percents(0, 0, 0, 0, 0) :
             d \in {0, 10}, m \in SingleModes}
         \cup {[avg_commute_distance |-> d, commute_mode |-> "Mixed"] @@ s :
                 d \in {0, 10}, s \in SliderSettings},
     waste |->
         [landfill_waste : {0, 1}, recycled_waste : {0, 1}, composted_waste : {0, 1},
          incinerated_waste : {0, 1}],
     purchased_goods |->
         {[purchased_goods |-> g, industry |-> i] :
             g \in {0, 10000}, i \in {Text.Manufacturing, Text.FoodBeverage, Text.Other}}
    ]

\* A form with something entered in every section.
BusyForm ==
    [organization_name |-> "Acme", industry |-> Text.Technology,
     reporting_year |-> 2022, num_employees |-> 100,
     natural_gas |-> 100, diesel |-> 200, propane |-> 300, fuel_oil |-> 400,
     gasoline |-> 500, diesel_vehicles |-> 600, jet_fuel |-> 700,
     refrigerant_type |-> "R-410A", refrigerant_amount |-> 2,
     electricity_source |-> "Grid Electricity", electricity |-> 3000,
     grid_region |-> Text.WesternEurope,
     air_travel_short |-> 1000, air_travel_medium |-> 2000,
     air_travel_long |-> 3000, car_rental |-> 400, hotel_stays |-> 10,
     avg_commute_distance |-> 10, commute_days_per_year |-> 230,
     commute_mode |-> "Mixed",
     car_percent |-> 30, carpool_percent |-> 20,
     public_transit_percent |-> 30, walking_biking_percent |-> 10,
     wfh_percent |-> 10,
     landfill_waste |-> 5, recycled_waste |-> 6, composted_waste |-> 7,
     incinerated_waste |-> 8,
     purchased_goods |-> 10000]

\* Forms with an organization name (the ones a session can save).
NamedForms ==
    {BusyForm,
     Percents(50, 50, 50, 0, 0) @@ BusyForm,
     [organization_name |-> "Acme"] @@ DefaultForm,
     [organization_name |-> "Bolt", industry |-> Text.Other,
      commute_mode |-> "Carpool"] @@ Percents(0, 0, 0, 0, 0) @@ BusyForm}

\* A set as a sequence, to enumerate forms by position.
RECURSIVE SeqOf(_)
SeqOf(S) ==
    IF S = {} THEN <<>>
    ELSE LET x == CHOOSE y \in S : TRUE IN <<x>> \o SeqOf(S \ {x})

\* The default form with one section filled in.
SectionForms(values) == SeqOf({v @@ DefaultForm : v \in values})

\* The forms a Calculate click is modelled for: the default form with one
\* section filled in, the named forms, and the busy form without a name.
FormList ==
    SectionForms(SectionValues.stationary) \o SectionForms(SectionValues.mobile)
    \o SectionForms(SectionValues.refrigerants) \o SectionForms(SectionValues.electricity)
    \o SectionForms(SectionValues.business_travel) \o SectionForms(SectionValues.commuting)
    \o SectionForms(SectionValues.waste) \o SectionForms(SectionValues.purchased_goods)
    \o SeqOf(NamedForms \cup {[organization_name |-> ""] @@ BusyForm})

FormInputs == {FormList[i] : i \in DOMAIN FormList}

\* ------------------------------------------------------------------------
\* app.py: the 'Calculate Carbon Footprint' handler
\* ------------------------------------------------------------------------

\* Variant that rescales the slider percentages so that they total 100.
mode_breakdown_of_normalised(f) ==
    LET t == f.car_percent + f.carpool_percent + f.public_transit_percent
               + f.walking_biking_percent + f.wfh_percent
        n(p) == IF t = 0 THEN 0 ELSE (p * One) \div t
    IN  [car |-> n(f.car_percent), carpool |-> n(f.carpool_percent),
         public_transit |-> n(f.public_transit_percent),
         walking_biking |-> n(f.walking_biking_percent),
         wfh |-> n(f.wfh_percent)]

\* The mode_breakdown argument built by the handler (shares in hundredths).
mode_breakdown_of(f) ==
    [car |->
        IF f.commute_mode = "Mixed" THEN (f.car_percent * One) \div 100
        ELSE IF f.commute_mode = "Car (Single Occupancy)" THEN One ELSE 0,
     carpool |->
        IF f.commute_mode = "Mixed" THEN (f.carpool_percent * One) \div 100
        ELSE IF f.commute_mode = "Carpool" THEN One ELSE 0,
     public_transit |->
        IF f.commute_mode = "Mixed"
        THEN (f.public_transit_percent * One) \div 100
        ELSE IF f.commute_mode = "Public Transit" THEN One ELSE 0,
     walking_biking |->
        IF f.commute_mode = "Mixed"
        THEN (f.walking_biking_percent * One) \div 100
        ELSE IF f.commute_mode = "Walking/Biking" THEN One ELSE 0,
     wfh |->
        IF f.commute_mode = "Mixed" THEN (f.wfh_percent * One) \div 100
        ELSE IF f.commute_mode = "Work from Home" THEN One ELSE 0]

\* The eight calculator calls of the handler, keyed as emissions_by_category.
category_emissions(ef, f) ==
    ("Stationary Combustion" :>
        calculate_stationary_combustion(ef, f.natural_gas, f.diesel, f.propane,
                                        f.fuel_oil))
    @@ ("Mobile Combustion" :>
        calculate_mobile_combustion(ef, f.gasoline, f.diesel_vehicles, f.jet_fuel))
    @@ ("Refrigerants" :>
        calculate_refrigerant_emissions(ef, f.refrigerant_type,
                                        f.refrigerant_amount))
    @@ ("Purchased Electricity" :>
        calculate_electricity_emissions(ef, f.electricity, f.grid_region,
                                        f.electricity_source))
    @@ ("Business Travel" :>
        calculate_business_travel_emissions(ef, f.air_travel_short,
            f.air_travel_medium, f.air_travel_long, f.car_rental,
            f.hotel_stays))
    @@ ("Employee Commuting" :>
        calculate_employee_commuting_emissions(ef, f.avg_commute_distance,
            f.num_employees, f.commute_days_per_year, f.commute_mode,
            mode_breakdown_of(f)))
    @@ ("Waste Generation" :>
        calculate_waste_emissions(ef, f.landfill_waste, f.recycled_waste,
                                  f.composted_waste, f.incinerated_waste))
    @@ ("Purchased Goods & Services" :>
        calculate_purchased_goods_emissions(ef, f.purchased_goods, f.industry))

\* Variant of scope1_total that leaves the refrigerants out.
scope1_total_without_refrigerants(c) ==
    c["Stationary Combustion"] + c["Mobile Combustion"]

\* Aggregate results
scope1_total(c) ==
    c["Stationary Combustion"] + c["Mobile Combustion"] + c["Refrigerants"]

scope2_total(c) == c["Purchased Electricity"]

scope3_total(c) ==
    c["Business Travel"] + c["Employee Commuting"] + c["Waste Generation"]
        + c["Purchased Goods & Services"]

\* Variant of total_of that leaves Scope 2 out.
total_of_without_scope2(c) == scope1_total(c) + scope3_total(c)

total_of(c) == scope1_total(c) + scope2_total(c) + scope3_total(c)

scopes_of(c) ==
    ("Scope 1" :> scope1_total(c)) @@ ("Scope 2" :> scope2_total(c))
        @@ ("Scope 3" :> scope3_total(c))

\* total_percent of the Commute Mode Breakdown sliders
total_percent(f) ==
    f.car_percent + f.carpool_percent + f.public_transit_percent
        + f.walking_biking_percent + f.wfh_percent

\* st.warning shown by the form when the sliders do not total 100
form_messages(f) ==
    IF f.commute_mode = "Mixed" /\ total_percent(f) # 100
    THEN {"Percentages should total 100%"}
    ELSE {}

\* The input_data dict saved with a record.
input_data_of(f) ==
    [organization_info |->
        [organization_name |-> f.organization_name, industry |-> f.industry,
         reporting_year |-> f.reporting_year,
         num_employees |-> f.num_employees],
     scope1 |->
        [natural_gas |-> f.natural_gas, diesel |-> f.diesel,
         propane |-> f.propane, fuel_oil |-> f.fuel_oil,
         gasoline |-> f.gasoline, diesel_vehicles |-> f.diesel_vehicles,
         jet_fuel |-> f.jet_fuel, refrigerant_type |-> f.refrigerant_type,
         refrigerant_amount |-> f.refrigerant_amount],
     scope2 |->
        [electricity |-> f.electricity, grid_region |-> f.grid_region,
         electricity_source |-> f.electricity_source],
     scope3 |->
        [business_travel |->
            [air_travel_short |-> f.air_travel_short,
             air_travel_medium |-> f.air_travel_medium,
             air_travel_long |-> f.air_travel_long,
             car_rental |-> f.car_rental, hotel_stays |-> f.hotel_stays],
         employee_commuting |->
            [avg_commute_distance |-> f.avg_commute_distance,
             commute_days_per_year |-> f.commute_days_per_year,
             commute_mode |-> f.commute_mode],
         waste |->
            [landfill_waste |-> f.landfill_waste,
             recycled_waste |-> f.recycled_waste,
             composted_waste |-> f.composted_waste,
             incinerated_waste |-> f.incinerated_waste],
         purchased_goods |-> [purchased_goods |-> f.purchased_goods]]]

\* ------------------------------------------------------------------------
\* database.py
\* ------------------------------------------------------------------------

\* The values of a JSON column are written as JSON documents and parsed when
\* a row is read. A document is a number, a string or an object, which is a
\* set of <<key, document>> pairs; the Python type of a value decides how
\* json writes it, and a schema stands for those types.
Num == [t |-> "num"]

Str == [t |-> "str"]

Obj(fields) == [t |-> "obj", fields |-> fields]

\* The types of the values of emissions_by_category and of input_data.
CategorySchema == Obj([c \in Categories |-> Num])

InputDataSchema ==
    Obj([organization_info |->
            Obj([organization_name |-> Str, industry |-> Str,
                 reporting_year |-> Num, num_employees |-> Num]),
         scope1 |->
            Obj([natural_gas |-> Num, diesel |-> Num, propane |-> Num,
                 fuel_oil |-> Num, gasoline |-> Num, diesel_vehicles |-> Num,
                 jet_fuel |-> Num, refrigerant_type |-> Str,
                 refrigerant_amount |-> Num]),
         scope2 |->
            Obj([electricity |-> Num, grid_region |-> Str,
                 electricity_source |-> Str]),
         scope3 |->
            Obj([business_travel |->
                    Obj([air_travel_short |-> Num, air_travel_medium |-> Num,
                         air_travel_long |-> Num, car_rental |-> Num,
                         hotel_stays |-> Num]),
                 employee_commuting |->
                    Obj([avg_commute_distance |-> Num,
                         commute_days_per_year |-> Num, commute_mode |-> Str]),
                 waste |->
                    Obj([landfill_waste |-> Num, recycled_waste |-> Num,
                         composted_waste |-> Num, incinerated_waste |-> Num]),
                 purchased_goods |-> Obj([purchased_goods |-> Num])])])

\* json.dumps of value v whose type is schema
RECURSIVE json_dumps(_, _)
json_dumps(schema, v) ==
    IF schema.t = "obj"
    THEN [t |-> "obj",
          v |-> {<<k, json_dumps(schema.fields[k], v[k])>> : k \in DOMAIN v}]
    ELSE [t |-> schema.t, v |-> v]

\* json.loads of a document
RECURSIVE json_loads(_)
json_loads(doc) ==
    IF doc.t = "obj"
    THEN [k \in {p[1] : p \in doc.v} |->
             json_loads((CHOOSE p \in doc.v : p[1] = k)[2])]
    ELSE doc.v

\* The row added by save_carbon_footprint (created_at is not modelled);
\* the primary key is assigned by the table in increasing order.
save_carbon_footprint(rows, organization_name, industry, reporting_year, num_employees, total, by_scope, by_category, input_data) ==
    [id |-> Len(rows) + 1,
     organization_name |-> organization_name, industry |-> industry,
     reporting_year |-> reporting_year, num_employees |-> num_employees,
     total_emissions |-> total,
     scope1_emissions |-> by_scope["Scope 1"],
     scope2_emissions |-> by_scope["Scope 2"],
     scope3_emissions |-> by_scope["Scope 3"],
     emissions_by_category |-> json_dumps(CategorySchema, by_category),
     input_data |-> json_dumps(InputDataSchema, input_data)]

\* Variant of get_footprint_by_id that returns the newest record.
get_footprint_by_id_newest(rows, record_id) ==
    IF \A i \in DOMAIN rows : rows[i].id # record_id
    THEN None
    ELSE LET footprint == rows[Len(rows)]
         IN  [id |-> footprint.id,
              organization_name |-> footprint.organization_name,
              industry |-> footprint.industry,
              reporting_year |-> footprint.reporting_year,
              total_emissions |-> footprint.total_emissions,
              scope1_emissions |-> footprint.scope1_emissions,
              scope2_emissions |-> footprint.scope2_emissions,
              scope3_emissions |-> footprint.scope3_emissions,
              emissions_by_category |->
                  json_loads(footprint.emissions_by_category),
              input_data |-> json_loads(footprint.input_data)]

\* The dictionary returned by get_footprint_by_id, or None (created_at is
\* not modelled).
get_footprint_by_id(rows, record_id) ==
    IF \A i \in DOMAIN rows : rows[i].id # record_id
    THEN None
    ELSE LET footprint ==
                 rows[CHOOSE i \in DOMAIN rows :
                         /\ rows[i].id = record_id
                         /\ \A j \in 1..(i - 1) : rows[j].id # record_id]
         IN  [id |-> footprint.id,
              organization_name |-> footprint.organization_name,
              industry |-> footprint.industry,
              reporting_year |-> footprint.reporting_year,
              total_emissions |-> footprint.total_emissions,
              scope1_emissions |-> footprint.scope1_emissions,
              scope2_emissions |-> footprint.scope2_emissions,
              scope3_emissions |-> footprint.scope3_emissions,
              emissions_by_category |->
                  json_loads(footprint.emissions_by_category),
              input_data |-> json_loads(footprint.input_data)]

\* ------------------------------------------------------------------------
\* Actions of a session
\* ------------------------------------------------------------------------

\* First script run of a session: nothing entered, nothing clicked.
Init ==
    /\ embedded \in BOOLEAN
    /\ form = DefaultForm
    /\ calculate_button = FALSE
    /\ total_emissions = 0
    /\ emissions_by_scope = ("Scope 1" :> 0) @@ ("Scope 2" :> 0) @@ ("Scope 3" :> 0)
    /\ emissions_by_category = EmptyDict
    /\ recommendations = None
    /\ input_complete = FALSE
    /\ last_saved_id = 0
    /\ emission_factors = LoadedFactors
    /\ history = <<>>
    /\ messages = {}
    /\ db = <<>>
    /\ tab4 = None
    /\ call = None
    /\ ret = None

\* What the handler derives from the eight calculator results c.
results_of(c, industry) ==
    [total_emissions |-> total_of(c),
     emissions_by_scope |-> scopes_of(c),
     emissions_by_category |-> c,
     recommendations |-> generate_recommendations(c, industry)]

\* What the handler computes from the form before it stores anything.
handler_results(ef, f) == results_of(category_emissions(ef, f), f.industry)

\* category_emissions and handler_results with the tables as loaded, tabulated
\* over the modelled forms.
CategoryList ==
    [i \in DOMAIN FormList |-> category_emissions(LoadedFactors, FormList[i])]

ResultList ==
    [i \in DOMAIN FormList |-> results_of(CategoryList[i], FormList[i].industry)]

\* Variant of StoreResults that does not store the recommendations.
StoreResults_without_recommendations(r) ==
    /\ total_emissions' = r.total_emissions
    /\ emissions_by_scope' = r.emissions_by_scope
    /\ emissions_by_category' = r.emissions_by_category
    /\ recommendations' = recommendations
    /\ input_complete' = TRUE

\* The part of the handler that stores the results r in the session.
StoreResults(r) ==
    /\ total_emissions' = r.total_emissions
    /\ emissions_by_scope' = r.emissions_by_scope
    /\ emissions_by_category' = r.emissions_by_category
    /\ recommendations' = r.recommendations
    /\ input_complete' = TRUE

\* Variant of should_save that does not look at the embedded flag.
should_save_when_named(f) == f.organization_name # ""

\* if not embedded and organization_name:
should_save(f) == ~embedded /\ f.organization_name # ""

\* Calculate click on form f with results r, saved to the database.
CalculateSaved(f, r) ==
    /\ should_save(f)
    /\ Len(db) < MaxRecords
    /\ form' = f
    /\ calculate_button' = TRUE
    /\ StoreResults(r)
    /\ LET row == save_carbon_footprint(db, f.organization_name, f.industry,
                      f.reporting_year, f.num_employees, r.total_emissions,
                      r.emissions_by_scope, r.emissions_by_category,
                      input_data_of(f))
       IN  /\ db' = Append(db, row)
           /\ last_saved_id' = row.id
    /\ messages' = form_messages(f)
                     \cup {"Calculation complete! Results saved to database"}
    /\ tab4' = None
    /\ UNCHANGED <<embedded, library_vars>>

\* Variant of CalculateSaveFailed in which the exception ends the handler
\* before the results are stored.
CalculateSaveFailed_results_dropped(f, r) ==
    /\ should_save(f)
    /\ form' = f
    /\ calculate_button' = TRUE
    /\ messages' = form_messages(f) \cup {"Error saving to database"}
    /\ tab4' = None
    /\ UNCHANGED <<embedded, total_emissions, emissions_by_scope,
                   emissions_by_category, recommendations, input_complete,
                   last_saved_id, db, library_vars>>

\* Calculate click, save_carbon_footprint raises.
CalculateSaveFailed(f, r) ==
    /\ should_save(f)
    /\ form' = f
    /\ calculate_button' = TRUE
    /\ StoreResults(r)
    /\ messages' = form_messages(f)
                     \cup {"Error saving to database", "Calculation complete!"}
    /\ tab4' = None
    /\ UNCHANGED <<embedded, last_saved_id, db, library_vars>>

\* Calculate click in embedded mode or without an organization name.
CalculateUnsaved(f, r) ==
    /\ ~should_save(f)
    /\ form' = f
    /\ calculate_button' = TRUE
    /\ StoreResults(r)
    /\ messages' = form_messages(f) \cup {"Calculation complete!"}
                     \cup (IF embedded THEN {}
                           ELSE {"Organization name is required to save results to database."})
    /\ tab4' = None
    /\ UNCHANGED <<embedded, last_saved_id, db, library_vars>>

\* Calculate click on one of the forms whose positions in FormList are given.
CalculateOneOf(positions) ==
    \E i \in positions :
        \E r \in {IF emission_factors = LoadedFactors THEN ResultList[i]
                  ELSE handler_results(emission_factors, FormList[i])} :
            \/ CalculateSaved(FormList[i], r)
            \/ CalculateSaveFailed(FormList[i], r)
            \/ CalculateUnsaved(FormList[i], r)

Calculate == CalculateOneOf(DOMAIN FormList)

Next == Calculate

Spec == Init /\ [][Next]_vars

\* What the Results Dashboard tab shows in the latest run: the stored results
\* and the categories of the recommendations export, or only the hint to
\* complete the input (None). Reading st.session_state.recommendations
\* raises while it is unset.
tab2 ==
    IF input_complete
    THEN IF recommendations = None THEN Raised
         ELSE Returned([total_emissions |-> total_emissions,
                        emissions_by_scope |-> emissions_by_scope,
                        emissions_by_category |-> emissions_by_category,
                        recommendations_data |-> DOMAIN recommendations])
    ELSE None

\* What the Recommendations tab shows: one expander per category of the
\* stored recommendations, or only the hint (None).
tab3 ==
    IF input_complete
    THEN IF recommendations = None THEN Raised
         ELSE Returned(recommendations)
    ELSE None

\* ------------------------------------------------------------------------
\* A session that also uses the Carbon Offsets tab
\* ------------------------------------------------------------------------

\* Settings of the tab's three controls: the slider "Percentage of emissions
\* to offset", the input "Maximum budget per tonne (USD)" and the select box
\* "Project location preference". The first is the default of each.
OffsetControls ==
    {[offset_percentage |-> 100, budget_per_tonne |-> None,
      location |-> "Global"],
     [offset_percentage |-> 50, budget_per_tonne |-> Budget(3),
      location |-> "Global"],
     [offset_percentage |-> 100, budget_per_tonne |-> Budget(10),
      location |-> "Europe"]}

\* The value of the name industry when the handler makes the call: line 822
\* has bound it to "Other", and line 824 binds it to itself.
industry_passed(f) == Text.Other

\* Click on "Generate Offset Recommendations": the script reruns without a
\* Calculate click and the tab shows the portfolio.
GenerateOffsets ==
    /\ input_complete
    /\ \E w \in OffsetControls :
           tab4' = [industry |-> industry_passed(form),
                    budget_per_tonne |-> w.budget_per_tonne,
                    location |-> w.location,
                    offset_percentage |-> w.offset_percentage,
                    offset_recommendations |->
                        get_offset_recommendations(emissions_by_scope,
                            emissions_by_category, industry_passed(form),
                            w.budget_per_tonne, w.location,
                            w.offset_percentage)]
    /\ calculate_button' = FALSE
    /\ messages' = form_messages(form) \cup {"Offsetting would cost approximately"}
    /\ UNCHANGED <<embedded, form, total_emissions, emissions_by_scope,
                   emissions_by_category, recommendations, input_complete,
                   last_saved_id, db, library_vars>>

\* The forms of the sessions that use the tab: the forms with an
\* organization name, and the forms with electricity or purchased goods
\* entered (they differ in scope, category and industry).
OffsetForms ==
    {i \in DOMAIN FormList :
        \/ FormList[i].organization_name # ""
        \/ FormList[i].electricity > 0
        \/ FormList[i].purchased_goods > 0}

OffsetsNext == CalculateOneOf(OffsetForms) \/ GenerateOffsets

OffsetsSpec == Init /\ [][OffsetsNext]_vars

\* ------------------------------------------------------------------------
\* report_generator.py and the report downloads of the Results Dashboard
\* ------------------------------------------------------------------------

\* generate_pdf_report: what the PDF prints. The header lines, the total,
\* the scope and category tables, and up to three recommendations for each
\* of the first three categories in descending order of emissions that have
\* recommendations. (The line 'Report Generated' with the current date and
\* the percentage columns are not part of the model.)
generate_pdf_report(organization_name, industry, reporting_year, num_employees, total, by_scope, by_category, recs) ==
    LET top == {c \in DOMAIN by_category :
                   Cardinality(sorted_before(by_category, c)) < 3}
    IN  [organization_name |-> organization_name, industry |-> industry,
         reporting_year |-> reporting_year, num_employees |-> num_employees,
         total_emissions |-> total, emissions_by_scope |-> by_scope,
         emissions_by_category |-> by_category,
         recommendations |->
             [c \in top \cap DOMAIN recs |-> Take(recs[c], 3)]]

\* generate_excel_report: the Summary sheet, the scope and category sheets
\* and the Recommendations sheet with every recommendation.
generate_excel_report(organization_name, industry, reporting_year, num_employees, total, by_scope, by_category, recs) ==
    [organization_name |-> organization_name, industry |-> industry,
     reporting_year |-> reporting_year, num_employees |-> num_employees,
     total_emissions |-> total, emissions_by_scope |-> by_scope,
     emissions_by_category |-> by_category, recommendations |-> recs]

\* The section 'Download Complete Reports' of a script run: both reports
\* are built on every run that shows the dashboard, from the current values
\* of the four organization widgets and from the stored results. Nothing
\* (None) before the first calculation and in embedded mode.
reports ==
    IF input_complete /\ ~embedded
    THEN [pdf |-> generate_pdf_report(form.organization_name, form.industry,
                      form.reporting_year, form.num_employees,
                      total_emissions, emissions_by_scope,
                      emissions_by_category, recommendations),
          excel |-> generate_excel_report(form.organization_name,
                      form.industry, form.reporting_year, form.num_employees,
                      total_emissions, emissions_by_scope,
                      emissions_by_category, recommendations)]
    ELSE None

\* The forms of the sessions that download reports: the forms with an
\* organization name and the busy form without one.
ReportForms ==
    {i \in DOMAIN FormList :
        \/ FormList[i].organization_name # ""
        \/ FormList[i] = [organization_name |-> ""] @@ BusyForm}

\* The user changes widgets of the form without clicking a button: the
\* script reruns with the new widget values, calculate_button is False, and
\* st.session_state is left as it was.
EditForm ==
    \E i \in ReportForms :
        /\ FormList[i] # form
        /\ form' = FormList[i]
        /\ calculate_button' = FALSE
        /\ messages' = form_messages(FormList[i])
        /\ tab4' = None
        /\ UNCHANGED <<embedded, total_emissions, emissions_by_scope,
                       emissions_by_category, recommendations, input_complete,
                       last_saved_id, db, library_vars>>

ReportNext == CalculateOneOf(ReportForms) \/ EditForm

ReportSpec == Init /\ [][ReportNext]_vars

\* ------------------------------------------------------------------------
\* Direct calls of the calculator functions (ghg_protocol.py as a library)
\* ------------------------------------------------------------------------

\* Largest multiple of a quantity step passed to a calculator.
MaxQty == 2

\* Argument values of the direct calls, by kind of argument.
CallValues ==
    [
     quantity |->
         {k * 100 : k \in 0..MaxQty},
     tons |->
         0..MaxQty,
     kilowatt_hours |->
         {k * 1000 : k \in 0..MaxQty},
     kilograms |->
         (0..MaxQty) \cup {100},
     dollars |->
         {k * 10000 : k \in 0..MaxQty},
     \* Selector values that the form does not offer
     refrigerant_type |->
         FormOptions.refrigerant_type \cup {"none", "R-999"},
     grid_region |->
         FormOptions.grid_region \cup {Text.UnknownRegion, Text.RenewableText, Text.MixedText},
     electricity_source |->
         FormOptions.electricity_source \cup {"Solar"},
     commute_mode |->
         FormModes \cup {"Bicycle"},
     industry |->
         FormOptions.industry \cup {Text.UnknownRegion, Key.manufacturing, Key.food_beverage, Key.default}
    ]

\* mode_breakdown arguments: shares in hundredths for all five modes
FullBreakdowns ==
    [car : {0, 50, 100}, carpool : {0, 50, 100},
     public_transit : {0, 50, 100}, walking_biking : {0, 50, 100},
     wfh : {0, 50, 100}]
    \cup {[car |-> 30, carpool |-> 20, public_transit |-> 30,
           walking_biking |-> 10, wfh |-> 10]}

\* ... and mappings that lack some of the five keys
PartialBreakdowns ==
    {[car |-> 100], [car |-> 50, carpool |-> 50, public_transit |-> 0,
                     walking_biking |-> 0]}

CommutingArgs ==
    [avg_commute_distance : {0, 5, 10}, num_employees : {1, 100},
     commute_days_per_year : {0, 230}, commute_mode : {"Mixed"},
     mode_breakdown : FullBreakdowns \cup PartialBreakdowns
                        \cup {None, EmptyDict}]
    \cup
    [avg_commute_distance : {0, 5, 10}, num_employees : {1, 100},
     commute_days_per_year : {0, 230}, commute_mode : CallValues.commute_mode \ {"Mixed"},
     mode_breakdown : {None, [car |-> 50, carpool |-> 50, public_transit |-> 0,
                              walking_biking |-> 0, wfh |-> 0]}]

Calls ==
    {[fn |-> "calculate_stationary_combustion", args |-> a] :
        a \in [natural_gas : CallValues.quantity, diesel : CallValues.quantity,
               propane : CallValues.quantity, fuel_oil : CallValues.quantity]}
    \cup {[fn |-> "calculate_mobile_combustion", args |-> a] :
        a \in [gasoline : CallValues.quantity, diesel : CallValues.quantity,
               jet_fuel : CallValues.quantity]}
    \cup {[fn |-> "calculate_refrigerant_emissions", args |-> a] :
        a \in [refrigerant_type : CallValues.refrigerant_type, amount : CallValues.kilograms]}
    \cup {[fn |-> "calculate_electricity_emissions", args |-> a] :
        a \in [electricity : CallValues.kilowatt_hours, grid_region : CallValues.grid_region,
               electricity_source : CallValues.electricity_source]}
    \cup {[fn |-> "calculate_business_travel_emissions", args |-> a] :
        a \in [air_travel_short : CallValues.quantity, air_travel_medium : CallValues.quantity,
               air_travel_long : CallValues.quantity, car_rental : CallValues.quantity,
               hotel_stays : CallValues.tons]}
    \cup {[fn |-> "calculate_employee_commuting_emissions", args |-> a] :
        a \in CommutingArgs}
    \cup {[fn |-> "calculate_waste_emissions", args |-> a] :
        a \in [landfill_waste : CallValues.tons, recycled_waste : CallValues.tons,
               composted_waste : CallValues.tons, incinerated_waste : CallValues.tons]}
    \cup {[fn |-> "calculate_purchased_goods_emissions", args |-> a] :
        a \in [purchased_goods : CallValues.dollars, industry : CallValues.industry]}

\* Variant in which a call uses up the landfill factor.
factors_after_call_consumed(ef) == [ef EXCEPT !.WASTE.landfill = 0]

\* The tables after a call of a calculator: no function of ghg_protocol
\* assigns to ef or to one of its tables.
factors_after_call(ef) == ef

\* A process that has imported the modules and is about to make one call.
CalcInit ==
    /\ embedded = FALSE
    /\ form = DefaultForm
    /\ calculate_button = FALSE
    /\ total_emissions = 0
    /\ emissions_by_scope = ("Scope 1" :> 0) @@ ("Scope 2" :> 0) @@ ("Scope 3" :> 0)
    /\ emissions_by_category = EmptyDict
    /\ recommendations = None
    /\ input_complete = FALSE
    /\ last_saved_id = 0
    /\ emission_factors = LoadedFactors
    /\ history = <<>>
    /\ messages = {}
    /\ db = <<>>
    /\ tab4 = None
    /\ call \in Calls
    /\ ret = None

Pending(fn) == call # None /\ ret = None /\ call.fn = fn

CallStationary ==
    /\ Pending("calculate_stationary_combustion")
    /\ ret' = Returned(calculate_stationary_combustion(emission_factors, call.args.natural_gas,
                  call.args.diesel, call.args.propane, call.args.fuel_oil))
    /\ emission_factors' = factors_after_call(emission_factors)
    /\ UNCHANGED <<session_vars, call, history>>

CallMobile ==
    /\ Pending("calculate_mobile_combustion")
    /\ ret' = Returned(calculate_mobile_combustion(emission_factors, call.args.gasoline,
                  call.args.diesel, call.args.jet_fuel))
    /\ emission_factors' = factors_after_call(emission_factors)
    /\ UNCHANGED <<session_vars, call, history>>

CallRefrigerant ==
    /\ Pending("calculate_refrigerant_emissions")
    /\ ret' = Returned(calculate_refrigerant_emissions(emission_factors,
                  call.args.refrigerant_type, call.args.amount))
    /\ emission_factors' = factors_after_call(emission_factors)
    /\ UNCHANGED <<session_vars, call, history>>

CallElectricity ==
    /\ Pending("calculate_electricity_emissions")
    /\ ret' = Returned(calculate_electricity_emissions(emission_factors, call.args.electricity,
                  call.args.grid_region, call.args.electricity_source))
    /\ emission_factors' = factors_after_call(emission_factors)
    /\ UNCHANGED <<session_vars, call, history>>

CallBusinessTravel ==
    /\ Pending("calculate_business_travel_emissions")
    /\ ret' = Returned(calculate_business_travel_emissions(emission_factors,
                  call.args.air_travel_short, call.args.air_travel_medium,
                  call.args.air_travel_long, call.args.car_rental,
                  call.args.hotel_stays))
    /\ emission_factors' = factors_after_call(emission_factors)
    /\ UNCHANGED <<session_vars, call, history>>

CallCommuting ==
    /\ Pending("calculate_employee_commuting_emissions")
    /\ ret' = IF commuting_raises(call.args.commute_mode,
                                  call.args.mode_breakdown)
              THEN Raised
              ELSE Returned(calculate_employee_commuting_emissions(emission_factors,
                       call.args.avg_commute_distance, call.args.num_employees,
                       call.args.commute_days_per_year, call.args.commute_mode,
                       call.args.mode_breakdown))
    /\ emission_factors' = factors_after_call(emission_factors)
    /\ UNCHANGED <<session_vars, call, history>>

CallWaste ==
    /\ Pending("calculate_waste_emissions")
    /\ ret' = Returned(calculate_waste_emissions(emission_factors, call.args.landfill_waste,
                  call.args.recycled_waste, call.args.composted_waste,
                  call.args.incinerated_waste))
    /\ emission_factors' = factors_after_call(emission_factors)
    /\ UNCHANGED <<session_vars, call, history>>

CallPurchasedGoods ==
    /\ Pending("calculate_purchased_goods_emissions")
    /\ ret' = Returned(calculate_purchased_goods_emissions(emission_factors,
                  call.args.purchased_goods, call.args.industry))
    /\ emission_factors' = factors_after_call(emission_factors)
    /\ UNCHANGED <<session_vars, call, history>>

CalcNext ==
    \/ CallStationary
    \/ CallMobile
    \/ CallRefrigerant
    \/ CallElectricity
    \/ CallBusinessTravel
    \/ CallCommuting
    \/ CallWaste
    \/ CallPurchasedGoods

CalcSpec == CalcInit /\ [][CalcNext]_vars

\* A session or a direct call: the two kinds of process side by side.
AllInit == Init \/ CalcInit

AllNext == (call = None /\ Next) \/ CalcNext

AllSpec == AllInit /\ [][AllNext]_vars

\* ------------------------------------------------------------------------
\* A process that makes several calls of the calculator functions in a row
\* ------------------------------------------------------------------------

\* Number of calls that one process makes.
MaxCalls == 3

\* The calls such a process chooses from.
SeqCalls ==
    {[fn |-> "calculate_stationary_combustion",
      args |-> [natural_gas |-> 100, diesel |-> 0, propane |-> 0,
                fuel_oil |-> 100]],
     [fn |-> "calculate_mobile_combustion",
      args |-> [gasoline |-> 100, diesel |-> 100, jet_fuel |-> 0]],
     [fn |-> "calculate_refrigerant_emissions",
      args |-> [refrigerant_type |-> "R-22", amount |-> 1]],
     [fn |-> "calculate_electricity_emissions",
      args |-> [electricity |-> 1000, grid_region |-> Text.Asia,
                electricity_source |-> "Grid Electricity"]],
     [fn |-> "calculate_business_travel_emissions",
      args |-> [air_travel_short |-> 100, air_travel_medium |-> 0,
                air_travel_long |-> 0, car_rental |-> 0, hotel_stays |-> 1]],
     [fn |-> "calculate_employee_commuting_emissions",
      args |-> [avg_commute_distance |-> 10, num_employees |-> 100,
                commute_days_per_year |-> 230, commute_mode |-> "Mixed",
                mode_breakdown |-> [car |-> 50, carpool |-> 50,
                                    public_transit |-> 0,
                                    walking_biking |-> 0, wfh |-> 0]]],
     [fn |-> "calculate_employee_commuting_emissions",
      args |-> [avg_commute_distance |-> 10, num_employees |-> 100,
                commute_days_per_year |-> 230, commute_mode |-> "Mixed",
                mode_breakdown |-> [car |-> 100]]],
     [fn |-> "calculate_waste_emissions",
      args |-> [landfill_waste |-> 1, recycled_waste |-> 1,
                composted_waste |-> 0, incinerated_waste |-> 0]],
     [fn |-> "calculate_waste_emissions",
      args |-> [landfill_waste |-> 0, recycled_waste |-> 2,
                composted_waste |-> 0, incinerated_waste |-> 0]],
     [fn |-> "calculate_purchased_goods_emissions",
      args |-> [purchased_goods |-> 10000, industry |-> Text.Retail]]}

SeqInit ==
    /\ embedded = FALSE
    /\ form = DefaultForm
    /\ calculate_button = FALSE
    /\ total_emissions = 0
    /\ emissions_by_scope = ("Scope 1" :> 0) @@ ("Scope 2" :> 0) @@ ("Scope 3" :> 0)
    /\ emissions_by_category = EmptyDict
    /\ recommendations = None
    /\ input_complete = FALSE
    /\ last_saved_id = 0
    /\ messages = {}
    /\ db = <<>>
    /\ tab4 = None
    /\ call = None
    /\ ret = None
    /\ emission_factors = LoadedFactors
    /\ history = <<>>

\* The process starts its next call.
BeginCall ==
    /\ call = None
    /\ Len(history) < MaxCalls
    /\ call' \in SeqCalls
    /\ UNCHANGED <<session_vars, ret, emission_factors, history>>

\* The process takes the result of the call and goes on.
FinishCall ==
    /\ call # None
    /\ ret # None
    /\ history' = Append(history, [call |-> call, ret |-> ret])
    /\ call' = None
    /\ ret' = None
    /\ UNCHANGED <<session_vars, emission_factors>>

SeqNext == BeginCall \/ CalcNext \/ FinishCall

SeqSpec == SeqInit /\ [][SeqNext]_vars

\* ------------------------------------------------------------------------
\* A process that calls save_carbon_footprint and get_footprint_by_id
\* ------------------------------------------------------------------------

\* The arguments that the Calculate handler passes to save_carbon_footprint
\* for form f.
save_args_of(f) ==
    LET r == handler_results(LoadedFactors, f)
    IN  [organization_name |-> f.organization_name, industry |-> f.industry,
         reporting_year |-> f.reporting_year,
         num_employees |-> f.num_employees,
         total_emissions |-> r.total_emissions,
         emissions_by_scope |-> r.emissions_by_scope,
         emissions_by_category |-> r.emissions_by_category,
         input_data |-> input_data_of(f)]

SaveArgs == {save_args_of(f) : f \in NamedForms}

\* Record ids asked for: those the table can hold, 0 and one beyond.
LookupIds == 0..(MaxRecords + 1)

IsSave(h) == h.call.fn = "save_carbon_footprint"

IsLookup(h) == h.call.fn = "get_footprint_by_id"

\* save_carbon_footprint(**a) returns the id of the new record.
SaveFootprint ==
    \E a \in SaveArgs :
        LET row == save_carbon_footprint(db, a.organization_name, a.industry,
                       a.reporting_year, a.num_employees, a.total_emissions,
                       a.emissions_by_scope, a.emissions_by_category,
                       a.input_data)
        IN  /\ call = None
            /\ Len(history) < MaxCalls
            /\ Len(db) < MaxRecords
            /\ db' = Append(db, row)
            /\ history' = Append(history,
                              [call |-> [fn |-> "save_carbon_footprint",
                                         args |-> a],
                               ret |-> Returned(row.id)])
            /\ UNCHANGED <<embedded, form, calculate_button, total_emissions,
                           emissions_by_scope, emissions_by_category,
                           recommendations, input_complete, last_saved_id,
                           messages, tab4, call, ret, emission_factors>>

\* save_carbon_footprint(**a) raises: the commit failed, no record is added.
SaveFootprintRaises ==
    \E a \in SaveArgs :
        /\ call = None
        /\ Len(history) < MaxCalls
        /\ history' = Append(history,
                          [call |-> [fn |-> "save_carbon_footprint",
                                     args |-> a],
                           ret |-> Raised])
        /\ UNCHANGED <<session_vars, call, ret, emission_factors>>

\* get_footprint_by_id(record_id)
GetFootprint ==
    \E record_id \in LookupIds :
        /\ call = None
        /\ Len(history) < MaxCalls
        /\ history' = Append(history,
                          [call |-> [fn |-> "get_footprint_by_id",
                                     args |-> [record_id |-> record_id]],
                           ret |-> Returned(get_footprint_by_id(db, record_id))])
        /\ UNCHANGED <<session_vars, call, ret, emission_factors>>

DbNext == SaveFootprint \/ SaveFootprintRaises \/ GetFootprint

DbSpec == SeqInit /\ [][DbNext]_vars

\* ------------------------------------------------------------------------
\* Direct calls of get_offset_recommendations (carbon_offsets.py as a library)
\* ------------------------------------------------------------------------

\* An emissions_by_category dict with the given tonnes and zero elsewhere.
Profile(tonnes) ==
    [c \in Categories |-> IF c \in DOMAIN tonnes THEN tonnes[c] * Tonne ELSE 0]

\* The calls. Emission profiles: nothing emitted, mostly electricity, mostly
\* travel and purchases, mostly fuel. Budgets in USD per tonne: none, zero,
\* below every project's lowest price, and budgets that admit two, six and
\* all projects.
OffsetCalls ==
    LET profiles ==
            {Profile(EmptyDict),
             Profile(("Purchased Electricity" :> 5)
                         @@ ("Stationary Combustion" :> 1)),
             Profile(("Business Travel" :> 3)
                         @@ ("Purchased Goods & Services" :> 4)
                         @@ ("Waste Generation" :> 2)
                         @@ ("Employee Commuting" :> 1)),
             Profile(("Mobile Combustion" :> 2) @@ ("Refrigerants" :> 6))}
        budgets == {None, Budget(0), Budget(3), Budget(5), Budget(10),
                    Budget(250)}
        locations == {"Global", "Europe", "USA"}
    IN  {[fn |-> "get_offset_recommendations",
          args |-> [emissions_by_scope |-> scopes_of(c),
                    emissions_by_category |-> c, industry |-> i,
                    budget_per_tonne |-> b, location |-> l,
                    offset_percentage |-> p]] :
            c \in profiles, i \in FormOptions.industry, b \in budgets,
            l \in locations, p \in {50, 100}}

\* A process that has imported carbon_offsets and is about to make one call.
OffsetCallInit ==
    /\ embedded = FALSE
    /\ form = DefaultForm
    /\ calculate_button = FALSE
    /\ total_emissions = 0
    /\ emissions_by_scope = ("Scope 1" :> 0) @@ ("Scope 2" :> 0) @@ ("Scope 3" :> 0)
    /\ emissions_by_category = EmptyDict
    /\ recommendations = None
    /\ input_complete = FALSE
    /\ last_saved_id = 0
    /\ messages = {}
    /\ db = <<>>
    /\ tab4 = None
    /\ call \in OffsetCalls
    /\ ret = None
    /\ emission_factors = LoadedFactors
    /\ history = <<>>

CallOffsetRecommendations ==
    /\ Pending("get_offset_recommendations")
    /\ ret' = Returned(get_offset_recommendations(call.args.emissions_by_scope,
                  call.args.emissions_by_category, call.args.industry,
                  call.args.budget_per_tonne, call.args.location,
                  call.args.offset_percentage))
    /\ UNCHANGED <<session_vars, call, emission_factors, history>>

OffsetCallNext == CallOffsetRecommendations

OffsetCallSpec == OffsetCallInit /\ [][OffsetCallNext]_vars

\* ------------------------------------------------------------------------
\* Direct calls of generate_recommendations (recommendations.py as a library)
\* ------------------------------------------------------------------------

\* Largest emission of a category in a call, in tonnes.
MaxTonnes == 2

\* The calls. The emissions_by_category arguments are the eight keys of
\* app.py with 0..MaxTonnes tonnes each, the same with a key added that
\* get_category_recommendations does not know, and with one negative value.
RecommendationCalls ==
    LET known == [Categories -> {t * Tonne : t \in 0..MaxTonnes}]
        dicts ==
            known
              \cup {d @@ ("Process Emissions" :> Tonne) : d \in known}
              \cup {[d EXCEPT ![c] = -Tonne] :
                       d \in [Categories -> {0, Tonne}], c \in Categories}
    IN  {[fn |-> "generate_recommendations",
          args |-> [emissions_by_category |-> d, industry |-> i]] :
            d \in dicts, i \in {Text.Manufacturing, Text.Other}}

\* A process that has imported recommendations and is about to make one call.
RecommendationCallInit ==
    /\ embedded = FALSE
    /\ form = DefaultForm
    /\ calculate_button = FALSE
    /\ total_emissions = 0
    /\ emissions_by_scope = ("Scope 1" :> 0) @@ ("Scope 2" :> 0) @@ ("Scope 3" :> 0)
    /\ emissions_by_category = EmptyDict
    /\ recommendations = None
    /\ input_complete = FALSE
    /\ last_saved_id = 0
    /\ messages = {}
    /\ db = <<>>
    /\ tab4 = None
    /\ call \in RecommendationCalls
    /\ ret = None
    /\ emission_factors = LoadedFactors
    /\ history = <<>>

CallGenerateRecommendations ==
    /\ Pending("generate_recommendations")
    /\ ret' = Returned(generate_recommendations(call.args.emissions_by_category,
                                                call.args.industry))
    /\ UNCHANGED <<session_vars, call, emission_factors, history>>

RecommendationCallNext == CallGenerateRecommendations

RecommendationCallSpec == RecommendationCallInit /\ [][RecommendationCallNext]_vars

\* ------------------------------------------------------------------------
\* Properties
\* ------------------------------------------------------------------------

\* A direct call of fn has returned a value.
HasReturned(fn) == call # None /\ call.fn = fn /\ ret # None /\ ~ret.raised

\* C1: in every state of a session the stored total equals the sum of the
\* stored scope values and the sum of the stored category values, and once a
\* calculation has been made the three stored results are those of one and
\* the same calculation.
C1_TotalsAgree ==
    /\ total_emissions = SumValues(emissions_by_scope)
    /\ total_emissions = SumValues(emissions_by_category)
    /\ input_complete =>
         \E i \in DOMAIN ResultList :
            /\ total_emissions = ResultList[i].total_emissions
            /\ emissions_by_scope = ResultList[i].emissions_by_scope
            /\ emissions_by_category = ResultList[i].emissions_by_category

\* C1 witness: a second saved calculation with every category positive.
C1_Witness ==
    /\ input_complete
    /\ last_saved_id = 2
    /\ \A c \in Categories : emissions_by_category[c] > 0

\* C2: every value returned by a calculator function is non-negative, and
\* every stored category value, scope total and grand total is non-negative.
C2_NonNegative ==
    /\ (ret # None /\ ~ret.raised) => ret.value >= 0
    /\ total_emissions >= 0
    /\ \A s \in DOMAIN emissions_by_scope : emissions_by_scope[s] >= 0
    /\ \A c \in DOMAIN emissions_by_category : emissions_by_category[c] >= 0

\* C2 witness: a mixed-mode commuting call has returned a positive value.
C2_Witness ==
    /\ HasReturned("calculate_employee_commuting_emissions")
    /\ call.args.commute_mode = "Mixed"
    /\ call.args.mode_breakdown \in FullBreakdowns
    /\ ret.value > 0

\* C3: after a calculation Scope 1 is stationary + mobile + refrigerants,
\* Scope 2 is purchased electricity, Scope 3 is travel + commuting + waste +
\* purchased goods, and the total is the sum of the three scopes.
C3_ScopeAssignment ==
    input_complete =>
        /\ DOMAIN emissions_by_category = Categories
        /\ emissions_by_scope["Scope 1"] =
               emissions_by_category["Stationary Combustion"]
                 + emissions_by_category["Mobile Combustion"]
                 + emissions_by_category["Refrigerants"]
        /\ emissions_by_scope["Scope 2"] =
               emissions_by_category["Purchased Electricity"]
        /\ emissions_by_scope["Scope 3"] =
               emissions_by_category["Business Travel"]
                 + emissions_by_category["Employee Commuting"]
                 + emissions_by_category["Waste Generation"]
                 + emissions_by_category["Purchased Goods & Services"]
        /\ total_emissions =
               emissions_by_scope["Scope 1"] + emissions_by_scope["Scope 2"]
                 + emissions_by_scope["Scope 3"]

\* C3 witness: a calculation in which only refrigerants emit.
C3_Witness ==
    /\ input_complete
    /\ emissions_by_category["Refrigerants"] > 0
    /\ emissions_by_scope["Scope 1"] = emissions_by_category["Refrigerants"]
    /\ emissions_by_scope["Scope 3"] = 0

\* C4: with the renewable or the mixed source the result is kWh times the
\* source-level factor (0.000016 / 0.000320) divided by 1000, and it is the
\* same for every grid region.
C4_SourceOverridesRegion ==
    (/\ HasReturned("calculate_electricity_emissions")
     /\ call.args.electricity_source \in {"Renewable Energy", "Mixed Sources"})
    =>
        /\ ret.value * 1000 = call.args.electricity *
              (IF call.args.electricity_source = "Renewable Energy"
               THEN 16 ELSE 320)
        /\ \A r \in CallValues.grid_region :
              calculate_electricity_emissions(emission_factors, call.args.electricity, r,
                  call.args.electricity_source) = ret.value

\* C4 witness: a renewable-source call for a region that has its own factor.
C4_Witness ==
    /\ HasReturned("calculate_electricity_emissions")
    /\ call.args.electricity_source = "Renewable Energy"
    /\ call.args.grid_region = Text.Asia
    /\ call.args.electricity > 0

\* The seven grid regions with a factor of their own.
SpecificRegions ==
    {Text.NortheastUS, Text.MidwestUS, Text.SouthUS, Text.WestUS, Text.WesternEurope, Text.EasternEurope,
     Text.Asia}

\* C5: with the grid source, every region that is not one of the seven
\* region-specific entries gets the default factor 0.000431.
C5_DefaultForOtherRegions ==
    (/\ HasReturned("calculate_electricity_emissions")
     /\ call.args.electricity_source = "Grid Electricity"
     /\ call.args.grid_region \notin SpecificRegions)
    => ret.value * 1000 = call.args.electricity * 431

\* The factor of each of the seven regions, as listed for the form's names.
RegionFactor ==
    (Text.NortheastUS :> 254) @@ (Text.MidwestUS :> 481) @@ (Text.SouthUS :> 427) @@
    (Text.WestUS :> 221) @@ (Text.WesternEurope :> 276) @@ (Text.EasternEurope :> 483) @@
    (Text.Asia :> 562)

\* C6: with the grid source and one of the seven region names of the form the
\* result is kWh times that region's factor divided by 1000; 1000 kWh in
\* "Northeast US" give 0.000254 tonnes.
C6_RegionFactorApplied ==
    (/\ HasReturned("calculate_electricity_emissions")
     /\ call.args.electricity_source = "Grid Electricity"
     /\ call.args.grid_region \in SpecificRegions)
    =>
        /\ ret.value * 1000 =
              call.args.electricity * RegionFactor[call.args.grid_region]
        /\ (call.args.electricity = 1000 /\ call.args.grid_region = Text.NortheastUS)
              => ret.value = 254

\* C6 witness: the call (1000, "Northeast US", "Grid Electricity") returned.
C6_Witness ==
    /\ HasReturned("calculate_electricity_emissions")
    /\ call.args.electricity_source = "Grid Electricity"
    /\ call.args.grid_region = Text.NortheastUS
    /\ call.args.electricity = 1000
    /\ ret.value = 254

\* The single-mode result for mode m with the arguments of the pending call.
SingleModeResult(m) ==
    calculate_employee_commuting_emissions(emission_factors, call.args.avg_commute_distance,
        call.args.num_employees, call.args.commute_days_per_year, m, None)

\* The share p (in hundredths) of an emission value x.
PartOf(x, p) == (x \div One) * p

\* The form's name of each key of a breakdown.
ModeOfKey ==
    [car |-> "Car (Single Occupancy)", carpool |-> "Carpool",
     public_transit |-> "Public Transit", walking_biking |-> "Walking/Biking",
     wfh |-> "Work from Home"]

\* C7: a mixed-mode call whose five shares sum to 100% returns the sum over
\* the modes of that mode's share of the single-mode result, and a breakdown
\* of 100% on one mode returns that mode's single-mode result.
C7_MixedEqualsSumOfShares ==
    (/\ HasReturned("calculate_employee_commuting_emissions")
     /\ call.args.commute_mode = "Mixed"
     /\ call.args.mode_breakdown \in FullBreakdowns
     /\ SumValues(call.args.mode_breakdown) = One)
    =>
        /\ ret.value =
              PartOf(SingleModeResult("Car (Single Occupancy)"),
                    call.args.mode_breakdown.car)
              + PartOf(SingleModeResult("Carpool"),
                      call.args.mode_breakdown.carpool)
              + PartOf(SingleModeResult("Public Transit"),
                      call.args.mode_breakdown.public_transit)
              + PartOf(SingleModeResult("Walking/Biking"),
                      call.args.mode_breakdown.walking_biking)
              + PartOf(SingleModeResult("Work from Home"),
                      call.args.mode_breakdown.wfh)
        /\ \A k \in BreakdownKeys :
              call.args.mode_breakdown[k] = One =>
                  ret.value = SingleModeResult(ModeOfKey[k])

\* C7 witness: half carpool, half public transit, with a positive result.
C7_Witness ==
    /\ HasReturned("calculate_employee_commuting_emissions")
    /\ call.args.commute_mode = "Mixed"
    /\ call.args.mode_breakdown \in FullBreakdowns
    /\ call.args.mode_breakdown.carpool = 50
    /\ call.args.mode_breakdown.public_transit = 50
    /\ SumValues(call.args.mode_breakdown) = One
    /\ ret.value > 0

\* The per-mile factor of each named mode, in micro-tonnes.
ModeFactor ==
    ("Car (Single Occupancy)" :> 348) @@ ("Carpool" :> 162) @@
    ("Public Transit" :> 96) @@ ("Walking/Biking" :> 0) @@
    ("Work from Home" :> 32)

\* C8: a single-mode call returns distance * 2 * employees * days * the
\* factor of the mode; (10, 100, 230, "Car (Single Occupancy)") gives
\* 10*2*100*230*0.000348 = 160.08 tonnes.
C8_SingleMode ==
    (/\ HasReturned("calculate_employee_commuting_emissions")
     /\ call.args.commute_mode \in SingleModes)
    =>
        /\ ret.value =
              call.args.avg_commute_distance * 2 * call.args.num_employees
                * call.args.commute_days_per_year
                * ModeFactor[call.args.commute_mode]
        /\ (/\ call.args.avg_commute_distance = 10
            /\ call.args.num_employees = 100
            /\ call.args.commute_days_per_year = 230
            /\ call.args.commute_mode = "Car (Single Occupancy)")
              => ret.value = 160080000

\* C8 witness: the call (10, 100, 230, "Carpool") returned 74.52 tonnes.
C8_Witness ==
    /\ HasReturned("calculate_employee_commuting_emissions")
    /\ call.args.avg_commute_distance = 10
    /\ call.args.num_employees = 100
    /\ call.args.commute_days_per_year = 230
    /\ call.args.commute_mode = "Carpool"
    /\ ret.value = 74520000

\* The weighted sum of the slider percentages of form f, not normalised.
UnnormalisedCommuting(f) ==
    LET miles == f.avg_commute_distance * 2 * f.num_employees
                   * f.commute_days_per_year
    IN  Share(miles, f.car_percent) * 348
          + Share(miles, f.carpool_percent) * 162
          + Share(miles, f.public_transit_percent) * 96
          + Share(miles, f.walking_biking_percent) * 0
          + Share(miles, f.wfh_percent) * 32

\* C9: a Calculate click with mode Mixed and percentages that do not total
\* 100 shows the warning and completes: the commuting value is the
\* unnormalised weighted sum, and total, scopes, categories and
\* recommendations are stored with input_complete set.
C9_MixedNot100Proceeds ==
    (/\ calculate_button
     /\ form.commute_mode = "Mixed"
     /\ total_percent(form) # 100)
    =>
        /\ "Percentages should total 100%" \in messages
        /\ input_complete
        /\ recommendations # None
        /\ DOMAIN emissions_by_category = Categories
        /\ emissions_by_category["Employee Commuting"] =
              UnnormalisedCommuting(form)
        /\ emissions_by_scope["Scope 3"] =
              emissions_by_category["Business Travel"]
                + UnnormalisedCommuting(form)
                + emissions_by_category["Waste Generation"]
                + emissions_by_category["Purchased Goods & Services"]
        /\ total_emissions =
              emissions_by_scope["Scope 1"] + emissions_by_scope["Scope 2"]
                + emissions_by_scope["Scope 3"]

\* C9 witness: a calculation with percentages totalling 150 whose commuting
\* value is positive.
C9_Witness ==
    /\ calculate_button
    /\ form.commute_mode = "Mixed"
    /\ total_percent(form) = 150
    /\ input_complete
    /\ emissions_by_category["Employee Commuting"] > 0

\* The global warming potential of each listed refrigerant.
ListedGWP ==
    ("R-134a" :> 1430) @@ ("R-410A" :> 2088) @@ ("R-404A" :> 3922) @@
    ("R-22" :> 1810)

\* C10: for a listed refrigerant and a positive amount the result is
\* amount * GWP / 1000 tonnes; for type "none" (in either spelling) or
\* amount 0 the result is 0.
C10_Refrigerant ==
    HasReturned("calculate_refrigerant_emissions")
    =>
        /\ (call.args.refrigerant_type \in DOMAIN ListedGWP
              /\ call.args.amount > 0)
              => ret.value =
                    call.args.amount * ListedGWP[call.args.refrigerant_type]
                      * (Tonne \div 1000)
        /\ (call.args.refrigerant_type \in {"none", "None"}
              \/ call.args.amount = 0)
              => ret.value = 0

\* C10 witness: the call ("none", 100) returned 0.
C10_Witness ==
    /\ HasReturned("calculate_refrigerant_emissions")
    /\ call.args.refrigerant_type = "none"
    /\ call.args.amount = 100
    /\ ret.value = 0

\* The factor of each of the seven industries, as listed for the form's names
\* (tonnes per million USD).
IndustryFactor ==
    (Text.Manufacturing :> 563) @@ (Text.Technology :> 386) @@ (Text.Retail :> 274) @@
    (Text.Healthcare :> 221) @@ (Text.Education :> 176) @@
    (Text.FinancialServices :> 143) @@ (Text.FoodBeverage :> 498)

\* The seven industry-specific keys of PURCHASED_GOODS.
IndustryKeys ==
    {Key.manufacturing, Key.technology, Key.retail, Key.healthcare, Key.education,
     Key.financial_services, Key.food_beverage}

\* The table key that an industry name is normalised to.
IndustryKey(industry) ==
    replace(replace(lower(industry), <<" ","&"," ">>, <<"_">>), <<" ">>, <<"_">>)

\* C11 as stated: each of the seven industries of the form gets its own
\* factor and every other industry value gets the default factor 412; the
\* result is spend / 1,000,000 * factor.
C11_OtherIndustriesDefault ==
    HasReturned("calculate_purchased_goods_emissions")
    => ret.value = call.args.purchased_goods *
          (IF call.args.industry \in DOMAIN IndustryFactor
           THEN IndustryFactor[call.args.industry] ELSE 412)

\* C11 amended: each of the seven industries of the form gets its own factor,
\* and every industry value whose normalised name (lower case, " & " and
\* spaces to underscores) is not one of the seven industry keys gets the
\* default factor 412; the result is spend / 1,000,000 * factor.
C11_IndustryFactorApplied ==
    HasReturned("calculate_purchased_goods_emissions")
    =>
        /\ call.args.industry \in DOMAIN IndustryFactor
              => ret.value = call.args.purchased_goods
                               * IndustryFactor[call.args.industry]
        /\ IndustryKey(call.args.industry) \notin IndustryKeys
              => ret.value = call.args.purchased_goods * 412

\* C11 witness: 10000 USD spent in "Food & Beverage" returned 4.98 tonnes.
C11_Witness ==
    /\ HasReturned("calculate_purchased_goods_emissions")
    /\ call.args.industry = Text.FoodBeverage
    /\ call.args.purchased_goods = 10000
    /\ ret.value = 4980000

\* The fixed factor of each sub-activity of the four weighted-sum calculators,
\* keyed by the argument that carries its quantity (micro-tonnes per unit).
SubActivityFactor ==
    [calculate_stationary_combustion |->
        [natural_gas |-> 1950, diesel |-> 2730, propane |-> 1530,
         fuel_oil |-> 2810],
     calculate_mobile_combustion |->
        [gasoline |-> 2340, diesel |-> 2670, jet_fuel |-> 2590],
     calculate_business_travel_emissions |->
        [air_travel_short |-> 258, air_travel_medium |-> 168,
         air_travel_long |-> 153, car_rental |-> 348, hotel_stays |-> 21000],
     calculate_waste_emissions |->
        [landfill_waste |-> 458000, recycled_waste |-> 21000,
         composted_waste |-> 23000, incinerated_waste |-> 13600]]

WeightedCalculators == DOMAIN SubActivityFactor

\* The result of the weighted-sum calculator fn for the argument record a.
ApplyWeighted(ef, fn, a) ==
    CASE fn = "calculate_stationary_combustion" ->
            calculate_stationary_combustion(ef, a.natural_gas, a.diesel, a.propane,
                                            a.fuel_oil)
      [] fn = "calculate_mobile_combustion" ->
            calculate_mobile_combustion(ef, a.gasoline, a.diesel, a.jet_fuel)
      [] fn = "calculate_business_travel_emissions" ->
            calculate_business_travel_emissions(ef, a.air_travel_short,
                a.air_travel_medium, a.air_travel_long, a.car_rental,
                a.hotel_stays)
      [] fn = "calculate_waste_emissions" ->
            calculate_waste_emissions(ef, a.landfill_waste, a.recycled_waste,
                                      a.composted_waste, a.incinerated_waste)

\* The argument records of the calls of fn.
ArgsOf(fn) == {c.args : c \in {d \in Calls : d.fn = fn}}

\* Quantities added sub-activity by sub-activity; a <= b in every sub-activity.
PlusArgs(a, b) == [k \in DOMAIN a |-> a[k] + b[k]]

LeqArgs(a, b) == \A k \in DOMAIN a : a[k] <= b[k]

\* C12: a weighted-sum calculator (stationary, mobile, business travel, waste)
\* returns the sum of quantity * factor over its sub-activities; it returns 0
\* when all quantities are 0, it is additive (the result for a + b is the
\* result for a plus the result for b) and monotone in every quantity.
C12_WeightedSums ==
    \A fn \in WeightedCalculators :
        HasReturned(fn) =>
            LET a == call.args
                F == SubActivityFactor[fn]
            IN  /\ ret.value = SumOver([k \in DOMAIN a |-> a[k] * F[k]], DOMAIN a)
                /\ (\A k \in DOMAIN a : a[k] = 0) => ret.value = 0
                /\ \A b \in ArgsOf(fn) :
                      /\ ApplyWeighted(emission_factors, fn, PlusArgs(a, b))
                            = ret.value + ApplyWeighted(emission_factors, fn, b)
                      /\ LeqArgs(a, b) => ret.value <= ApplyWeighted(emission_factors, fn, b)

\* C12 witness: a stationary combustion call with four positive quantities
\* has returned 100*0.00195 + 200*0.00273 + 100*0.00153 + 200*0.00281 tonnes.
C12_Witness ==
    /\ HasReturned("calculate_stationary_combustion")
    /\ call.args = [natural_gas |-> 100, diesel |-> 200, propane |-> 100,
                    fuel_oil |-> 200]
    /\ ret.value = 1456000

\* A direct call of fn has finished, by returning or by raising.
Done(fn) == call # None /\ call.fn = fn /\ ret # None

\* The table key that a grid region name is normalised to.
RegionKey(grid_region) == replace(lower(grid_region), <<" ">>, <<"_">>)

\* C13: a categorical selector that is not found in its factor table falls
\* back to a default and the call returns a number without raising: an
\* unknown grid region gets the default factor 0.000431, an unknown industry
\* the default factor 412, an unknown refrigerant type the GWP 0 and an
\* unknown commute mode the factor of the single-occupancy car.
C13_SilentFallback ==
    /\ (/\ Done("calculate_electricity_emissions")
        /\ call.args.electricity_source \notin {"Renewable Energy", "Mixed Sources"}
        /\ RegionKey(call.args.grid_region) \notin DOMAIN ELECTRICITY)
       => (~ret.raised /\ ret.value * 1000 = call.args.electricity * 431)
    /\ (/\ Done("calculate_purchased_goods_emissions")
        /\ IndustryKey(call.args.industry) \notin DOMAIN PURCHASED_GOODS)
       => (~ret.raised /\ ret.value = call.args.purchased_goods * 412)
    /\ (/\ Done("calculate_refrigerant_emissions")
        /\ call.args.refrigerant_type \notin DOMAIN REFRIGERANTS)
       => (~ret.raised /\ ret.value = 0)
    /\ (/\ Done("calculate_employee_commuting_emissions")
        /\ call.args.commute_mode \notin DOMAIN mode_mapping \cup {"Mixed"})
       => (/\ ~ret.raised
           /\ ret.value = call.args.avg_commute_distance * 2
                            * call.args.num_employees
                            * call.args.commute_days_per_year * 348)

\* C13 witness: a call with the unknown commute mode "Bicycle" has returned
\* the single-occupancy car result 10*2*100*230*0.000348 = 160.08 tonnes.
C13_Witness ==
    /\ HasReturned("calculate_employee_commuting_emissions")
    /\ call.args.commute_mode = "Bicycle"
    /\ call.args.avg_commute_distance = 10
    /\ call.args.num_employees = 100
    /\ call.args.commute_days_per_year = 230
    /\ ret.value = 160080000

\* C14: every finished call of a calculator has returned a number; none has
\* raised, whatever the selectors and the supplied mode breakdown.
C14_NeverRaises ==
    (call # None /\ ret # None) => ~ret.raised

\* C15: in a process that makes calculator calls in a row the factor tables
\* stay as they were loaded, and two calls of the same function with equal
\* arguments have the same outcome, whatever was called in between.
C15_StatelessDeterministic ==
    /\ emission_factors = LoadedFactors
    /\ \A i, j \in DOMAIN history :
          history[i].call = history[j].call => history[i].ret = history[j].ret
    /\ (call # None /\ ret # None) =>
          \A i \in DOMAIN history :
              history[i].call = call => history[i].ret = ret

\* C15 witness: the same waste call made first and third, with a call of
\* another function in between, returned 0.479 tonnes both times.
C15_Witness ==
    /\ Len(history) = 3
    /\ history[1].call.fn = "calculate_waste_emissions"
    /\ history[2].call.fn = "calculate_refrigerant_emissions"
    /\ history[3].call = history[1].call
    /\ history[1].ret.value = 479000
    /\ history[3].ret.value = 479000

\* The step adds one record to the database.
RecordAdded == Len(db') = Len(db) + 1 /\ SubSeq(db', 1, Len(db)) = db

SavesOf(record_id, j) ==
    {i \in 1..(j - 1) :
        /\ IsSave(history[i])
        /\ ~history[i].ret.raised
        /\ history[i].ret.value = record_id}

C18_PortfolioWithinBudget ==
    (/\ call # None
     /\ call.fn = "get_offset_recommendations"
     /\ ret # None
     /\ call.args.budget_per_tonne # None)
        => \A i \in DOMAIN ret.value.portfolio_approach :
               ret.value.portfolio_approach[i].price_range[1]
                   <= call.args.budget_per_tonne.usd

\* ------------------------------------------------------------------------
\* C19: the offsets handler passes the industry selected in the form
\* ------------------------------------------------------------------------

\* C19: when offset recommendations have been generated from the Carbon
\* Offsets tab, the industry that was passed to get_offset_recommendations
\* is the industry selected in the Input Data form, and the portfolio shown
\* is the one computed for that industry.
C19_FormIndustryPassed ==
    tab4 # None =>
        /\ tab4.industry = form.industry
        /\ tab4.offset_recommendations =
              get_offset_recommendations(emissions_by_scope,
                  emissions_by_category, form.industry, tab4.budget_per_tonne,
                  tab4.location, tab4.offset_percentage)

\* ------------------------------------------------------------------------
\* C20: generate_recommendations returns advice for the positive categories
\* ------------------------------------------------------------------------

\* The categories that get_category_recommendations has advice for.
KnownCategories ==
    {"Stationary Combustion", "Mobile Combustion", "Refrigerants",
     "Purchased Electricity", "Business Travel", "Employee Commuting",
     "Waste Generation", "Purchased Goods & Services"}

\* C20: the keys of the dictionary that generate_recommendations returns
\* are exactly the known categories of its input whose emissions are
\* strictly positive, every key is mapped to a non-empty list, and a
\* category with zero emissions is never a key.
C20_CategoryKeyedAdvice ==
    (/\ call # None
     /\ call.fn = "generate_recommendations"
     /\ ret # None)
        => LET d == call.args.emissions_by_category
               r == ret.value
           IN  /\ ~ret.raised
               /\ DOMAIN r = {c \in DOMAIN d \cap KnownCategories : d[c] > 0}
               /\ \A c \in DOMAIN r : Len(r[c]) > 0
               /\ \A c \in DOMAIN d : d[c] = 0 => c \notin DOMAIN r

\* A call has returned whose input has a known category with positive
\* emissions, a known category with none and an unknown category with
\* positive emissions.
C20_Witness ==
    /\ call # None
    /\ call.fn = "generate_recommendations"
    /\ ret # None
    /\ LET d == call.args.emissions_by_category
       IN  /\ \E c \in KnownCategories : d[c] > 0 /\ c \in DOMAIN ret.value
           /\ \E c \in KnownCategories : d[c] = 0
           /\ \E c \in DOMAIN d \ KnownCategories : d[c] > 0

\* ------------------------------------------------------------------------
\* C21: priority categories get a PRIORITY recommendation first
\* ------------------------------------------------------------------------

\* The recommendations whose text begins with "PRIORITY:".
PriorityTexts ==
    {"PRIORITY: Consider a comprehensive energy efficiency retrofit",
     "PRIORITY: Develop a fleet electrification strategy and timeline",
     "PRIORITY: Consider a power purchase agreement (PPA) for renewable energy",
     "PRIORITY: Set a business travel carbon budget with reduction targets",
     "PRIORITY: Implement a comprehensive sustainable commuting program",
     "PRIORITY: Establish a formal zero waste program with measurable targets",
     "PRIORITY: Engage top suppliers on science-based emissions reduction targets"}

\* The keys of d with strictly positive emissions that fewer than three keys
\* precede in descending order of emissions (equal values in key order).
PriorityCategories(d) ==
    {c \in DOMAIN d :
        /\ d[c] > 0
        /\ Cardinality({k \in DOMAIN d :
               \/ d[k] > d[c]
               \/ d[k] = d[c] /\ position(k) < position(c)}) < 3}

\* C21: in the dictionary that generate_recommendations returns, the list of
\* every priority category (one of the at most three categories with the
\* largest strictly positive emissions) begins with a recommendation
\* prefixed "PRIORITY:", and the list of a category that is not a priority
\* category contains no such entry.
C21_PriorityFirst ==
    (/\ call # None
     /\ call.fn = "generate_recommendations"
     /\ ret # None)
        => LET d == call.args.emissions_by_category
               r == ret.value
           IN  \A c \in DOMAIN r :
                   IF c \in PriorityCategories(d)
                   THEN r[c][1] \in PriorityTexts
                   ELSE \A i \in DOMAIN r[c] : r[c][i] \notin PriorityTexts

\* ------------------------------------------------------------------------
\* C22: results are shown only after a calculation
\* ------------------------------------------------------------------------

\* C22: input_complete starts False, changes only to True and only in a
\* script run that handles a Calculate click; the Results, Recommendations
\* and Carbon Offsets tabs show result content only while input_complete is
\* True; and whenever input_complete is True the session holds
\* recommendations, so no tab raises on reading them.
C22_ResultGating ==
    /\ ~input_complete
    /\ [][input_complete' # input_complete
            => input_complete' /\ calculate_button']_vars
    /\ []((tab2 # None \/ tab3 # None \/ tab4 # None) => input_complete)
    /\ [](input_complete => recommendations # None)
    /\ [](tab2 # Raised /\ tab3 # Raised)

\* A session in which a calculation is stored, the Results and
\* Recommendations tabs show it, and offsets were generated in the latest run.
C22_Witness ==
    /\ input_complete
    /\ tab2 # None
    /\ tab3 # None /\ tab3.value = recommendations
    /\ tab4 # None
    /\ DOMAIN recommendations # {}

\* ------------------------------------------------------------------------
\* C23: a failed save does not lose the calculation
\* ------------------------------------------------------------------------

\* C23: when the save raises during a Calculate step, the error is reported
\* and the calculation completes: the stored category, scope and total
\* results and the recommendations are those of the form just calculated,
\* input_complete is True, and last_saved_id and the database keep their
\* previous values.
C23_SaveFailureKeepsResults ==
    [][(calculate_button' /\ "Error saving to database" \in messages') =>
         \E c \in {category_emissions(emission_factors, form')} :
             /\ "Calculation complete!" \in messages'
             /\ emissions_by_category' = c
             /\ emissions_by_scope' = scopes_of(c)
             /\ total_emissions' = SumValues(c)
             /\ recommendations' = generate_recommendations(c, form'.industry)
             /\ input_complete'
             /\ last_saved_id' = last_saved_id
             /\ db' = db
      ]_vars

\* After a saved calculation, a calculation whose save raised has completed:
\* the session still holds the id of the earlier record and shows results
\* that differ from that record's.
C23_Witness ==
    /\ calculate_button
    /\ "Error saving to database" \in messages
    /\ input_complete
    /\ last_saved_id # 0
    /\ Len(db) = 1
    /\ total_emissions > 0
    /\ db[1].total_emissions # total_emissions

\* ------------------------------------------------------------------------
\* C24: the scored portfolio and its allocation
\* ------------------------------------------------------------------------

\* The sum of the numerators of the entries' fractions in field f.
Numerators(portfolio_approach, f) ==
    SumValues([i \in DOMAIN portfolio_approach |-> portfolio_approach[i][f].num])

\* C24: on the scored path of get_offset_recommendations the portfolio has
\* at most four projects, each with a score above 0, in non-increasing score
\* order; each project's allocation is its score over the total score of the
\* selected projects, so that the unrounded shares add up to 100 % and the
\* unrounded tonnes_to_offset add up to emissions_to_offset.
C24_ScoredPortfolio ==
    (HasReturned("get_offset_recommendations") /\ ~ret.value.note) =>
        LET r == ret.value
            p == r.portfolio_approach
        IN  \E total \in {SumValues([i \in DOMAIN p |-> p[i].score])} :
                /\ Len(p) \in 1..4
                /\ \A i \in DOMAIN p : p[i].score > 0
                /\ \A i \in DOMAIN p : i > 1 => p[i - 1].score >= p[i].score
                /\ \A i \in DOMAIN p :
                       /\ p[i].allocation = [num |-> p[i].score, den |-> total]
                       /\ p[i].tonnes_to_offset.den = total
                       /\ p[i].tonnes_to_offset.num
                              = p[i].score * r.emissions_to_offset
                /\ Numerators(p, "allocation") = total
                /\ Numerators(p, "tonnes_to_offset")
                       = total * r.emissions_to_offset

\* A call without a budget returned a scored portfolio of four projects with
\* unequal scores for a positive amount to offset.
C24_Witness ==
    /\ HasReturned("get_offset_recommendations")
    /\ ~ret.value.note
    /\ Len(ret.value.portfolio_approach) = 4
    /\ ret.value.portfolio_approach[1].score
           > ret.value.portfolio_approach[4].score
    /\ ret.value.emissions_to_offset > 0
    /\ call.args.budget_per_tonne = None

\* ------------------------------------------------------------------------
\* C25: commute mode Mixed without a breakdown
\* ------------------------------------------------------------------------

\* C25: a call of calculate_employee_commuting_emissions with commute mode
\* Mixed whose mode_breakdown is None or empty applies no breakdown: it
\* returns the full annual mileage (distance * 2 * employees * days) at the
\* single-occupancy car factor, the value of the mode "Car (Single
\* Occupancy)" for the same mileage.
C25_MixedWithoutBreakdown ==
    (/\ Done("calculate_employee_commuting_emissions")
     /\ call.args.commute_mode = "Mixed"
     /\ call.args.mode_breakdown \in {None, EmptyDict})
        => /\ ~ret.raised
           /\ ret.value = call.args.avg_commute_distance * 2
                            * call.args.num_employees
                            * call.args.commute_days_per_year
                            * LoadedFactors.COMMUTING.car
           /\ ret.value = calculate_employee_commuting_emissions(
                              LoadedFactors, call.args.avg_commute_distance,
                              call.args.num_employees,
                              call.args.commute_days_per_year,
                              "Car (Single Occupancy)", None)

\* A Mixed call with an empty breakdown has returned the car result
\* 10*2*100*230*0.000348 = 160.08 tonnes.
C25_Witness ==
    /\ HasReturned("calculate_employee_commuting_emissions")
    /\ call.args.commute_mode = "Mixed"
    /\ call.args.mode_breakdown = EmptyDict
    /\ call.args.avg_commute_distance = 10
    /\ call.args.num_employees = 100
    /\ call.args.commute_days_per_year = 230
    /\ ret.value = 160080000

\* ------------------------------------------------------------------------
\* C26: the total_emissions field of the offset recommendations
\* ------------------------------------------------------------------------

\* C26: whenever get_offset_recommendations has returned, on the scored path
\* or on the general-recommendations fallback and for every
\* offset_percentage, the total_emissions field of the returned dictionary
\* equals the sum of the values of emissions_by_scope.
C26_TotalIsScopeSum ==
    HasReturned("get_offset_recommendations")
        => ret.value.total_emissions
               = SumValues(call.args.emissions_by_scope)

\* ------------------------------------------------------------------------
\* C27: stored emissions as a function of the stored inputs
\* ------------------------------------------------------------------------

\* C27: any two saved records with equal input_data have equal total, scope
\* and category emissions.
C27_EmissionsFunctionOfInputData ==
    \A i, j \in DOMAIN db :
        db[i].input_data = db[j].input_data
            => /\ db[i].total_emissions = db[j].total_emissions
               /\ db[i].scope1_emissions = db[j].scope1_emissions
               /\ db[i].scope2_emissions = db[j].scope2_emissions
               /\ db[i].scope3_emissions = db[j].scope3_emissions
               /\ db[i].emissions_by_category = db[j].emissions_by_category

\* ------------------------------------------------------------------------
\* C28: the organization printed in a report
\* ------------------------------------------------------------------------

\* The organization name, industry, reporting year and employee count that
\* a report prints.
PrintedOrganization(r) ==
    [organization_name |-> r.organization_name, industry |-> r.industry,
     reporting_year |-> r.reporting_year, num_employees |-> r.num_employees]

\* C28: the organization name, industry, reporting year and employee count
\* printed in the PDF and Excel reports are those of the form at the time
\* the reported results were calculated: a run that calculates prints the
\* form it calculated from, and a run that does not calculate (the results
\* stay as they are) prints the same organization as the run before it.
C28_ReportOrganizationOfCalculation ==
    [][reports' # None =>
         \A kind \in {"pdf", "excel"} :
             IF calculate_button'
             THEN PrintedOrganization(reports'[kind])
                      = PrintedOrganization(form')
             ELSE reports # None
                      => PrintedOrganization(reports'[kind])
                             = PrintedOrganization(reports[kind])
      ]_vars

====
